---- MODULE Spec2Model ----
(***************************************************************************)
(* State-machine model of the ETGL game server (etgl.ts): the points       *)
(* ledger, the location store, the active selection, the profile stores    *)
(* and the HTTP / WebSocket handlers that read and write them.             *)
(*                                                                         *)
(* Identifiers are positive integers; 0 stands for null / undefined.       *)
(* Keys in UrlKeys are keys of the URL-keyed profile file                  *)
(* (key.startsWith('https://')).  Date.now() is a logical clock, `now`,    *)
(* that advances each time a selection is published.  A handler is cut     *)
(* into one action per access to shared state: the code between two        *)
(* awaits that touches no shared state is folded into the step before it.  *)
(***************************************************************************)
EXTENDS Integers, Sequences, FiniteSets, Bags, TLC

\* ------------------------------------------------------------------ bounds
MaxRuns == 2          \* selection runs started in one behaviour
MaxGpsUpdates == 2    \* accepted gps_update messages in one behaviour
MaxSetGender == 1     \* successful set-gender calls in one behaviour
MaxInflight == 1      \* HTTP handlers suspended at an await at one time
MaxConcurrent == 2    \* the same, where handlers run concurrently
MaxClients == 1       \* WebSocket connections registered at one time
MaxSteps == 3         \* runs and location updates together, among the
                      \* location readers
MaxAllSteps == 2      \* runs, location updates and profile changes together,
                      \* where all operations are combined
MaxRegistered == 3    \* connections registered at one time, among the
                      \* fan-outs
MaxFanoutSteps == 2   \* runs and location updates together, among the fan-outs
MaxLedger == 3        \* records of a points file read at start

\* ------------------------------------------------------------ identifiers
NULL == 0

Users == {1, 2, 3}              \* keys of ./etgl.json
UrlKeys == {101}                \* keys of ./etgl-urls.json
Keys == Users \cup UrlKeys
\* key.startsWith('https://')
isUrl(key) == key \in UrlKeys

Genders == {"M", "F"}
NoGender == "none"
NoWorldId == 0
WorldIds == {11, 12, 13}        \* the worldids profiles carry
RequestWorldIds == WorldIds \cup {19, NoWorldId}   \* 19: no profile carries it

\* Object.entries order of a profile file: insertion order of its keys.
RECURSIVE SetToSeq(_)
SetToSeq(S) ==
    IF S = {} THEN <<>>
    ELSE LET m == CHOOSE x \in S : \A y \in S : x <= y
         IN <<m>> \o SetToSeq(S \ {m})

SeqToSet(s) == {s[i] : i \in 1..Len(s)}

\* Array.prototype.includes
Includes(s, x) == \E i \in 1..Len(s) : s[i] = x

\* The fixes clients send.  Coordinates are in metres of arc from (0, 0)
\* (one unit is 1/R radians, about 0.000009 degrees), so that the spec's
\* (0, 0.01 degrees) is longitude 1112.
Fixes ==
    { [latitude |-> 0,  longitude |-> 0,    accuracy |-> 5,  timestamp |-> 2],
      [latitude |-> 80, longitude |-> 60,   accuracy |-> 10, timestamp |-> 1],
      [latitude |-> 0,  longitude |-> 101,  accuracy |-> 5,  timestamp |-> 3],
      [latitude |-> 0,  longitude |-> 1112, accuracy |-> 5,  timestamp |-> 1] }

VARIABLES
    profileStore,      \* ./etgl.json: key -> [gender, worldid]
    urlStore,          \* ./etgl-urls.json: key -> [gender, worldid]
    pointsFile,        \* ./etgl-points.json: the UserPoints records, in insertion order
    diskWritable,      \* whether fs.writeFileSync of the points file succeeds
    userLocations,     \* Map userId -> UserLocation
    selectedUsers,     \* the active selection
    now,               \* Date.now()
    runs,              \* selectRandomUsers calls suspended at their await
    reqs,              \* HTTP handlers suspended at an await (a bag)
    wsClients,         \* Map socket -> clientInfo
    readyState,        \* socket -> "CONNECTING" | "OPEN" | "CLOSED"
    sendThrows,        \* the sockets whose send() throws
    arrived,           \* the accepted location updates, in order of arrival
    profilesReadable,  \* whether ./etgl.json can be read and parsed
    targetUpdates,     \* pending getAllProfiles().then(...) of gps_update
    nRuns, nGps, nSetGender,   \* how many the behaviour has used of each bound
    out,               \* what the last step answered or sent
    server             \* wss, and the servers and timers created so far

vars == <<profileStore, urlStore, pointsFile, diskWritable, userLocations,
          selectedUsers, now, runs, reqs, wsClients, readyState, targetUpdates,
          nRuns, nGps, nSetGender, out, sendThrows, arrived, profilesReadable, server>>

\* ------------------------------------------------------------ geo math

\* The least r with r * r >= n: Math.sqrt, rounded up to a whole unit.
RECURSIVE SqrtSearch(_, _, _)
SqrtSearch(n, lo, hi) ==
    IF lo >= hi THEN lo
    ELSE LET mid == (lo + hi) \div 2
         IN IF mid * mid >= n THEN SqrtSearch(n, lo, mid)
            ELSE SqrtSearch(n, mid + 1, hi)

Sqrt(n) == SqrtSearch(n, 0, 4096)

\* Haversine.  With angles in units of 1/R radians and the fixes within a
\* few kilometres of (0, 0), sin x = x and cos x = 1 to well below one
\* unit, so a = sin^2(dphi/2) + cos(phi1) cos(phi2) sin^2(dlam/2) is
\* (dphi^2 + dlam^2) / (2R)^2, c = 2 atan2(sqrt a, sqrt(1 - a)) is
\* sqrt(dphi^2 + dlam^2) / R, and R * c is the result in metres.  The
\* result is rounded up to a whole metre, which leaves distance <= 100
\* exactly as it is on the unrounded value.
calculateDistance(lat1, lon1, lat2, lon2) ==
    LET dphi == lat2 - lat1
        dlam == lon2 - lon1
        a == dphi * dphi + dlam * dlam
        c == Sqrt(a)
    IN c

\* ------------------------------------------------------- points ledger

\* points[userId] of a PointsStorage: the index of the record, 0 if none.
PointsIndex(points, userId) ==
    IF \E i \in 1..Len(points) : points[i].userId = userId
    THEN CHOOSE i \in 1..Len(points) : points[i].userId = userId
    ELSE 0

\* loadPoints that reads no record (as when the file is not found).
loadPoints_Empty == <<>>

loadPoints == pointsFile

\* fs.writeFileSync in a try/catch that only logs: the file after the call.
savePoints(points) == IF diskWritable THEN points ELSE pointsFile

NewUserPoints(userId) ==
    [userId |-> userId, points |-> 0, lastUpdated |-> now, scannedTargets |-> <<>>]

getUserPointsFrom(points, userId) ==
    IF PointsIndex(points, userId) > 0
    THEN points[PointsIndex(points, userId)]
    ELSE NewUserPoints(userId)

getUserPoints(userId) == getUserPointsFrom(loadPoints, userId)

\* incrementUserPoints that saves the participant's record alone.
incrementUserPoints_SavesOneRecord(userId, targetId) ==
    LET points == loadPoints
        userPoints == getUserPointsFrom(points, userId)
    IN IF Includes(userPoints.scannedTargets, targetId)
       THEN [accepted |-> FALSE, file |-> pointsFile]
       ELSE LET updated == [userPoints EXCEPT
                                !.points = @ + 1,
                                !.scannedTargets = Append(@, targetId),
                                !.lastUpdated = now]
            IN [accepted |-> TRUE, file |-> savePoints(<<updated>>)]

\* incrementUserPoints without the scannedTargets.includes(targetId) test.
incrementUserPoints_NoIncludes(userId, targetId) ==
    LET points == loadPoints
        i == PointsIndex(points, userId)
        userPoints == getUserPointsFrom(points, userId)
        updated == [userPoints EXCEPT
                        !.points = @ + 1,
                        !.scannedTargets = Append(@, targetId),
                        !.lastUpdated = now]
        written == IF i > 0 THEN [points EXCEPT ![i] = updated]
                   ELSE Append(points, updated)
    IN [accepted |-> TRUE, file |-> savePoints(written)]

\* incrementUserPoints without scannedTargets.push(targetId).
incrementUserPoints_NoPush(userId, targetId) ==
    LET points == loadPoints
        i == PointsIndex(points, userId)
        userPoints == getUserPointsFrom(points, userId)
    IN IF Includes(userPoints.scannedTargets, targetId)
       THEN [accepted |-> FALSE, file |-> pointsFile]
       ELSE LET updated == [userPoints EXCEPT
                                !.points = @ + 1,
                                !.lastUpdated = now]
                written == IF i > 0 THEN [points EXCEPT ![i] = updated]
                           ELSE Append(points, updated)
            IN [accepted |-> TRUE, file |-> savePoints(written)]

\* [accepted, file]: the boolean returned and the points file afterwards.
incrementUserPoints(userId, targetId) ==
    LET points == loadPoints
        i == PointsIndex(points, userId)
        userPoints == getUserPointsFrom(points, userId)
    IN IF Includes(userPoints.scannedTargets, targetId)
       THEN [accepted |-> FALSE, file |-> pointsFile]
       ELSE LET updated == [userPoints EXCEPT
                                !.points = @ + 1,
                                !.scannedTargets = Append(@, targetId),
                                !.lastUpdated = now]
                written == IF i > 0 THEN [points EXCEPT ![i] = updated]
                           ELSE Append(points, updated)
            IN [accepted |-> TRUE, file |-> savePoints(written)]

\* --------------------------------------------------------- profile files

ProfileKeys(store) == SetToSeq(DOMAIN store)

\* The loop over Object.entries(profiles): the first key whose profile
\* carries the worldid, 0 if none does.
FindByWorldId(store, worldid) ==
    LET keys == ProfileKeys(store)
        hits == {i \in 1..Len(keys) : store[keys[i]].worldid = worldid}
    IN IF hits = {} THEN NULL
       ELSE keys[CHOOSE i \in hits : \A j \in hits : i <= j]

\* getAllProfiles: {} when the file is missing, empty or throws on read or
\* parse.
getAllProfiles == IF profilesReadable THEN profileStore ELSE <<>>

\* getAllProfiles that reads the file with fs.promises.readFile.
getAllProfilesAwaitsIO_ReadFile == TRUE

\* Whether `await getAllProfiles()` waits for I/O.  The function tests and
\* reads the file with fs.existsSync and fs.readFileSync and awaits nothing:
\* its promise is settled when it returns, and the caller resumes from the
\* microtask queue, before the event loop takes its next event.
getAllProfilesAwaitsIO == FALSE
getAllProfilesByUrl == urlStore

getProfileStore(key) == IF isUrl(key) THEN urlStore ELSE profileStore

\* oppositeGender without the flip.
OppositeGender_Same(userGender) == IF userGender = "M" THEN "M" ELSE "F"

OppositeGender(userGender) == IF userGender = "M" THEN "F" ELSE "M"

\* oppositeGender === 'M' ? selectedUsers.male : selectedUsers.female
SelectedOf(gender) == IF gender = "M" THEN selectedUsers.male ELSE selectedUsers.female

\* ------------------------------------------------------------ messages

\* What a step hands to the outside: an HTTP response, or the WebSocket
\* frames it sent, in order.
NoOutput == [op |-> "none"]
\* appLogger.warn / appLogger.error of a message handler
Logged(level, category, message, clientId) ==
    [op |-> "log", level |-> level, category |-> category, message |-> message,
     clientId |-> clientId]
WsOutput(sends) == [op |-> "ws", sends |-> sends]

Sockets == {1, 2, 3}

\* wsClients is a Map in insertion order: a sequence of clientInfo records.
ClientIndex(clients, ws) ==
    IF \E i \in 1..Len(clients) : clients[i].ws = ws
    THEN CHOOSE i \in 1..Len(clients) : clients[i].ws = ws
    ELSE 0

RECURSIVE MapDelete(_, _)
MapDelete(clients, ws) ==
    IF clients = <<>> THEN <<>>
    ELSE IF Head(clients).ws = ws THEN Tail(clients)
         ELSE <<Head(clients)>> \o MapDelete(Tail(clients), ws)

\* broadcastToClients without its try/catch: the first send() that throws
\* ends the forEach.
RECURSIVE BroadcastSends_Uncaught(_, _)
BroadcastSends_Uncaught(clients, message) ==
    IF clients = <<>> THEN <<>>
    ELSE IF readyState[Head(clients).ws] = "OPEN" /\ Head(clients).ws \in sendThrows
         THEN <<>>
         ELSE (IF readyState[Head(clients).ws] = "OPEN"
               THEN <<[to |-> Head(clients).ws, message |-> message]>>
               ELSE <<>>)
              \o BroadcastSends_Uncaught(Tail(clients), message)

\* broadcastToClients: the frames sent, one per registered client whose
\* socket is OPEN and whose send() does not throw, in the order of the Map.
RECURSIVE BroadcastSends(_, _)
BroadcastSends(clients, message) ==
    IF clients = <<>> THEN <<>>
    ELSE (IF readyState[Head(clients).ws] = "OPEN"
             /\ Head(clients).ws \notin sendThrows
          THEN <<[to |-> Head(clients).ws, message |-> message]>>
          ELSE <<>>)
         \o BroadcastSends(Tail(clients), message)

\* broadcastToClients: clientInfo.lastActivity = Date.now() for each send.
BroadcastTouch(clients) ==
    [i \in 1..Len(clients) |->
        IF readyState[clients[i].ws] = "OPEN" /\ clients[i].ws \notin sendThrows
        THEN [clients[i] EXCEPT !.lastActivity = now]
        ELSE clients[i]]

SelectedUsersMessage(selection) == [type |-> "selected_users", data |-> selection]
GpsUpdateMessage(userLocation) ==
    [type |-> "gps_update", userId |-> userLocation.userId, data |-> userLocation]
TargetUpdateMessage(userId, gender, location) ==
    [type |-> "target_update", userId |-> userId,
     data |-> [gender |-> gender, location |-> location]]
LocationSnapshotMessage(locations) == [type |-> "gps_update", data |-> locations]

\* Array.from(userLocations.values())
LocationValues == {userLocations[u] : u \in DOMAIN userLocations}

\* ------------------------------------------------------ server start

\* The module as loaded: wss is null, no timer is set, and the API's
\* one-second timeout that starts the server is pending.
AtLoad ==
    [wss |-> NULL, servers |-> 0, cleanupTimers |-> 0, selectionTimers |-> 0,
     initialSelections |-> 0, autoStart |-> TRUE]

\* initializeWebSocketServer has run to its end, once.
Started ==
    [wss |-> 1, servers |-> 1, cleanupTimers |-> 1, selectionTimers |-> 1,
     initialSelections |-> 0, autoStart |-> FALSE]

\* initializeWebSocketServer without its `if (wss)` guard.
initializeWebSocketServer_NoGuard(throws) ==
    IF throws
    THEN [server |-> server, thrown |-> TRUE]
    ELSE [server |-> [server EXCEPT !.wss = server.servers + 1,
                                    !.servers = @ + 1,
                                    !.cleanupTimers = @ + 1,
                                    !.selectionTimers = @ + 1,
                                    !.initialSelections = @ + 1],
          thrown |-> FALSE]

\* initializeWebSocketServer: [server, thrown].  throws: whether
\* new WebSocketServer({ port }) throws.
initializeWebSocketServer(throws) ==
    IF server.wss # NULL
    THEN [server |-> server, thrown |-> FALSE]
    ELSE IF throws
    THEN [server |-> server, thrown |-> TRUE]
    ELSE [server |-> [server EXCEPT !.wss = server.servers + 1,
                                    !.servers = @ + 1,
                                    !.cleanupTimers = @ + 1,
                                    !.selectionTimers = @ + 1,
                                    !.initialSelections = @ + 1],
          thrown |-> FALSE]

\* ---------------------------------------------------------------- Init

Init ==
    /\ profileStore = (1 :> [gender |-> "M", worldid |-> 11]
                    @@ 2 :> [gender |-> "F", worldid |-> 12]
                    @@ 3 :> [gender |-> "F", worldid |-> NoWorldId])
    /\ urlStore = (101 :> [gender |-> NoGender, worldid |-> 13])
    /\ pointsFile = <<>>
    /\ diskWritable = TRUE
    /\ userLocations = <<>>
    /\ selectedUsers = [male |-> NULL, female |-> NULL, selectedAt |-> 0]
    /\ now = 0
    /\ runs = <<>>
    /\ reqs = EmptyBag
    /\ wsClients = <<>>
    /\ readyState = [ws \in Sockets |-> "CONNECTING"]
    /\ sendThrows = {}
    /\ arrived = <<>>
    /\ profilesReadable = TRUE
    /\ server = Started
    /\ targetUpdates = <<>>
    /\ nRuns = 0
    /\ nGps = 0
    /\ nSetGender = 0
    /\ out = NoOutput

\* -------------------------------------------------- target scheduler

\* The categorisation loop of selectRandomUsers over Object.entries.
RECURSIVE UsersOfGender(_, _, _)
UsersOfGender(profiles, keys, gender) ==
    IF keys = <<>> THEN <<>>
    ELSE (IF profiles[Head(keys)].gender = gender THEN <<Head(keys)>> ELSE <<>>)
         \o UsersOfGender(profiles, Tail(keys), gender)

\* The draw with an index that can run one past the end of the list.
RandomPicks_PastEnd(users) == SeqToSet(users) \cup {NULL}

\* users[Math.floor(Math.random() * users.length)], or null: the values
\* the draw can give.
RandomPicks(users) == IF Len(users) > 0 THEN SeqToSet(users) ELSE {NULL}

\* Target updates broadcast for every selected participant, with or without
\* a stored location.
TargetUpdateSends_Unconditional(clients, selected, gender) ==
    IF selected # NULL
    THEN BroadcastSends(clients,
             TargetUpdateMessage(selected, gender,
                 IF selected \in DOMAIN userLocations
                 THEN userLocations[selected] ELSE NULL))
    ELSE <<>>

\* The target_update broadcasts that follow the selection broadcast.
TargetUpdateSends(clients, selected, gender) ==
    IF selected # NULL /\ selected \in DOMAIN userLocations
    THEN BroadcastSends(clients,
             TargetUpdateMessage(selected, gender, userLocations[selected]))
    ELSE <<>>

\* A scheduler that stops once a run has published an empty selection.
SelectStart_StopsAfterEmpty ==
    /\ nRuns' = nRuns + 1
    /\ runs' = IF selectedUsers.selectedAt > 0 /\ selectedUsers.male = NULL
                  /\ selectedUsers.female = NULL
               THEN runs
               ELSE Append(runs, [profiles |-> getAllProfiles])

\* selectRandomUsers up to its await: getAllProfiles() has read the file.
SelectStart ==
    /\ nRuns' = nRuns + 1
    /\ runs' = Append(runs, [profiles |-> getAllProfiles])

\* setInterval / setTimeout callbacks of initializeWebSocketServer.
SelectTimer ==
    /\ SelectStart
    /\ out' = NoOutput
    /\ UNCHANGED <<profileStore, urlStore, pointsFile, diskWritable, userLocations,
                   selectedUsers, now, reqs, wsClients, readyState, targetUpdates,
                   nGps, nSetGender, sendThrows, arrived, profilesReadable, server>>

\* POST /etgl/ws/select-new: selectRandomUsers() is not awaited.
SelectNew ==
    /\ SelectStart
    /\ out' = [op |-> "ws/select-new", status |-> 200,
               message |-> "New users selected", selectedUsers |-> selectedUsers]
    /\ UNCHANGED <<profileStore, urlStore, pointsFile, diskWritable, userLocations,
                   selectedUsers, now, reqs, wsClients, readyState, targetUpdates,
                   nGps, nSetGender, sendThrows, arrived, profilesReadable, server>>

\* selectRandomUsers after its await, writing the slots into the record in
\* place and leaving its selectedAt.
SelectFinish_KeepsSelectedAt ==
    /\ runs # <<>>
    /\ LET profiles == Head(runs).profiles
           maleUsers == UsersOfGender(profiles, ProfileKeys(profiles), "M")
           femaleUsers == UsersOfGender(profiles, ProfileKeys(profiles), "F")
       IN \E selectedMale \in RandomPicks(maleUsers),
             selectedFemale \in RandomPicks(femaleUsers) :
            LET selection == [male |-> selectedMale, female |-> selectedFemale,
                              selectedAt |-> selectedUsers.selectedAt]
                touched == BroadcastTouch(wsClients)
            IN /\ selectedUsers' = selection
               /\ now' = now + 1
               /\ wsClients' = touched
               /\ out' = WsOutput(
                      BroadcastSends(wsClients, SelectedUsersMessage(selection))
                      \o TargetUpdateSends(wsClients, selectedMale, "M")
                      \o TargetUpdateSends(wsClients, selectedFemale, "F"))
    /\ runs' = Tail(runs)
    /\ UNCHANGED <<profileStore, urlStore, pointsFile, diskWritable, userLocations,
                   reqs, readyState, targetUpdates, nRuns, nGps, nSetGender, sendThrows, arrived, profilesReadable, server>>

\* A run that, finding no profiles, keeps the selection it found and sends
\* nothing.
SelectFinish_KeepsOnEmpty ==
    /\ runs # <<>>
    /\ LET profiles == Head(runs).profiles
           maleUsers == UsersOfGender(profiles, ProfileKeys(profiles), "M")
           femaleUsers == UsersOfGender(profiles, ProfileKeys(profiles), "F")
       IN IF DOMAIN profiles = {}
          THEN /\ out' = WsOutput(<<>>)
               /\ UNCHANGED <<selectedUsers, now, wsClients>>
          ELSE \E selectedMale \in RandomPicks(maleUsers),
                  selectedFemale \in RandomPicks(femaleUsers) :
                 LET selection == [male |-> selectedMale, female |-> selectedFemale,
                                   selectedAt |-> now + 1]
                     touched == BroadcastTouch(wsClients)
                 IN /\ selectedUsers' = selection
                    /\ now' = now + 1
                    /\ wsClients' = touched
                    /\ out' = WsOutput(
                           BroadcastSends(wsClients, SelectedUsersMessage(selection))
                           \o TargetUpdateSends(wsClients, selectedMale, "M")
                           \o TargetUpdateSends(wsClients, selectedFemale, "F"))
    /\ runs' = Tail(runs)
    /\ UNCHANGED <<profileStore, urlStore, pointsFile, diskWritable, userLocations,
                   reqs, readyState, targetUpdates, nRuns, nGps, nSetGender, sendThrows, arrived, profilesReadable, server>>

\* selectRandomUsers after its await.
SelectFinish ==
    /\ runs # <<>>
    /\ LET profiles == Head(runs).profiles
           maleUsers == UsersOfGender(profiles, ProfileKeys(profiles), "M")
           femaleUsers == UsersOfGender(profiles, ProfileKeys(profiles), "F")
       IN \E selectedMale \in RandomPicks(maleUsers),
             selectedFemale \in RandomPicks(femaleUsers) :
            LET selection == [male |-> selectedMale, female |-> selectedFemale,
                              selectedAt |-> now + 1]
                touched == BroadcastTouch(wsClients)
            IN /\ selectedUsers' = selection
               /\ now' = now + 1
               /\ wsClients' = touched
               /\ out' = WsOutput(
                      BroadcastSends(wsClients, SelectedUsersMessage(selection))
                      \o TargetUpdateSends(wsClients, selectedMale, "M")
                      \o TargetUpdateSends(wsClients, selectedFemale, "F"))
    /\ runs' = Tail(runs)
    /\ UNCHANGED <<profileStore, urlStore, pointsFile, diskWritable, userLocations,
                   reqs, readyState, targetUpdates, nRuns, nGps, nSetGender, sendThrows, arrived, profilesReadable, server>>

\* ------------------------------------------------------------ profiles

\* setGender on a profile that exists: the profile file afterwards.
setGender(store, key, gender, worldid) ==
    [store EXCEPT ![key] = [gender |-> gender,
                            worldid |-> IF worldid # NoWorldId THEN worldid
                                        ELSE @.worldid]]

SetGenderInputs == {"M", "F", "X"}

\* POST /etgl/set-gender/:id
SetGender(key, gender, worldid) ==
    /\ IF gender \notin Genders
       THEN /\ out' = [op |-> "set-gender", status |-> 400,
                       error |-> "Invalid gender parameter, should be M/F"]
            /\ UNCHANGED <<profileStore, urlStore, nSetGender>>
       ELSE IF key \notin DOMAIN getProfileStore(key)
       THEN /\ out' = [op |-> "set-gender", status |-> 404,
                       error |-> "Profile not found"]
            /\ UNCHANGED <<profileStore, urlStore, nSetGender>>
       ELSE /\ out' = [op |-> "set-gender", status |-> 200,
                       gender |-> gender, worldid |-> worldid]
            /\ nSetGender' = nSetGender + 1
            /\ IF isUrl(key)
               THEN /\ urlStore' = setGender(urlStore, key, gender, worldid)
                    /\ UNCHANGED profileStore
               ELSE /\ profileStore' = setGender(profileStore, key, gender, worldid)
                    /\ UNCHANGED urlStore
    /\ UNCHANGED <<pointsFile, diskWritable, userLocations, selectedUsers, now, runs,
                   reqs, wsClients, readyState, targetUpdates, nRuns, nGps, sendThrows, arrived, profilesReadable, server>>

\* ------------------------------------------------------- scanned URLs

\* A scanned URL: whether the request carries one at all, the id its own
\* text matches /connect/<id> with (0: no match), and the id the path it
\* redirects to matches with (0: none, or the fetch failed).
ScannedUrl(given, path, redirect) ==
    [given |-> given, path |-> path, redirect |-> redirect]

ScannedUrls ==
    {ScannedUrl(TRUE, t, NULL) : t \in Users}
    \cup {ScannedUrl(TRUE, NULL, t) : t \in {NULL, 2}}
    \cup {ScannedUrl(FALSE, NULL, NULL)}

extractUserIdFromUrl(url) == IF url.path # NULL THEN url.path ELSE url.redirect

\* ------------------------------------------------- suspended handlers

\* The locals of a handler suspended at an await.  stage "url": it awaits
\* getAllProfilesByUrl(); stage "selection": its next step reads the
\* selection.
Request(op, stage, worldid, userId, userGender, scannedTargetId) ==
    [op |-> op, stage |-> stage, worldid |-> worldid, userId |-> userId,
     userGender |-> userGender, scannedTargetId |-> scannedTargetId]

Suspended == BagToSet(reqs)
Suspend(r) == reqs (+) SetToBag({r})
Resume(r) == reqs (-) SetToBag({r})

ProfileNotFound(op, worldid) ==
    [op |-> op, status |-> 404, worldid |-> worldid,
     error |-> "User profile or gender not found for the given worldid"]

ExtractFailed(r) ==
    [op |-> "scan-nfc", status |-> 400, req |-> r,
     error |-> "Could not extract user ID from scanned URL"]

\* ------------------------------------------------ POST /etgl/scan-nfc

\* From the profile found to the await of extractUserIdFromUrl: the
\* response, or none (the handler goes on to the selection).
ScanResolved(r) ==
    IF r.userId = NULL \/ r.userGender = NoGender
    THEN ProfileNotFound("scan-nfc", r.worldid)
    ELSE IF r.scannedTargetId = NULL THEN ExtractFailed(r)
    ELSE NoOutput

\* The handler from the request to its first suspension that another
\* handler can observe.
ScanBegin(worldid, scannedUrl) ==
    /\ IF worldid = NoWorldId \/ ~scannedUrl.given
       THEN /\ out' = [op |-> "scan-nfc", status |-> 400,
                       error |-> "Both worldid and scannedUrl are required"]
            /\ UNCHANGED reqs
       ELSE LET profiles == getAllProfiles
                userId == FindByWorldId(profiles, worldid)
                scannedTargetId == extractUserIdFromUrl(scannedUrl)
                found == Request("scan-nfc", "selection", worldid, userId,
                                 IF userId # NULL THEN profiles[userId].gender
                                 ELSE NoGender,
                                 scannedTargetId)
            IN IF userId = NULL
               THEN /\ reqs' = Suspend(Request("scan-nfc", "url", worldid, NULL,
                                               NoGender, scannedTargetId))
                    /\ out' = NoOutput
               ELSE /\ out' = ScanResolved(found)
                    /\ reqs' = IF ScanResolved(found) = NoOutput
                               THEN Suspend(found) ELSE reqs
    /\ UNCHANGED <<profileStore, urlStore, pointsFile, diskWritable, userLocations,
                   selectedUsers, now, runs, wsClients, readyState, targetUpdates,
                   nRuns, nGps, nSetGender, sendThrows, arrived, profilesReadable, server>>

\* The search of the URL-keyed profiles, for either handler.
UrlLookup(r) ==
    LET urlProfiles == getAllProfilesByUrl
        userId == FindByWorldId(urlProfiles, r.worldid)
    IN [r EXCEPT !.stage = "selection",
                 !.userId = userId,
                 !.userGender = IF userId # NULL THEN urlProfiles[userId].gender
                                ELSE NoGender]

ScanUrlLookup(r) ==
    /\ r \in Suspended
    /\ r.op = "scan-nfc"
    /\ r.stage = "url"
    /\ out' = ScanResolved(UrlLookup(r))
    /\ reqs' = IF ScanResolved(UrlLookup(r)) = NoOutput
               THEN Resume(r) (+) SetToBag({UrlLookup(r)})
               ELSE Resume(r)
    /\ UNCHANGED <<profileStore, urlStore, pointsFile, diskWritable, userLocations,
                   selectedUsers, now, runs, wsClients, readyState, targetUpdates,
                   nRuns, nGps, nSetGender, sendThrows, arrived, profilesReadable, server>>

\* ScanConfirm that compares the scanned id with the slot before testing the
\* slot for null.
ScanConfirm_ComparesFirst(r) ==
    LET oppositeGender == OppositeGender(r.userGender)
        expectedTargetId == SelectedOf(oppositeGender)
        incremented == incrementUserPoints(r.userId, r.scannedTargetId)
        updatedPoints == getUserPointsFrom(incremented.file, r.userId)
    IN IF r.scannedTargetId # expectedTargetId
       THEN [file |-> pointsFile,
             response |-> [op |-> "scan-nfc", status |-> 400, req |-> r,
                           success |-> FALSE,
                           error |-> "Scanned user is not your current target",
                           scannedTargetId |-> r.scannedTargetId,
                           expectedTargetId |-> expectedTargetId]]
       ELSE IF expectedTargetId = NULL
       THEN [file |-> pointsFile,
             response |-> [op |-> "scan-nfc", status |-> 404, req |-> r,
                           error |-> IF oppositeGender = "M"
                                     THEN "No male target currently selected"
                                     ELSE "No female target currently selected",
                           userGender |-> r.userGender,
                           oppositeGender |-> oppositeGender]]
       ELSE IF ~incremented.accepted
       THEN [file |-> incremented.file,
             response |-> [op |-> "scan-nfc", status |-> 400, req |-> r,
                           success |-> FALSE,
                           error |-> "Points not incremented",
                           reason |-> "You have already scanned this target",
                           scannedTargetId |-> r.scannedTargetId]]
       ELSE [file |-> incremented.file,
             response |-> [op |-> "scan-nfc", status |-> 200, req |-> r,
                           success |-> TRUE,
                           userId |-> r.userId,
                           scannedTargetId |-> r.scannedTargetId,
                           pointsEarned |-> 1,
                           totalPoints |-> updatedPoints.points,
                           scannedTargets |-> Len(updatedPoints.scannedTargets)]]

\* ScanConfirm that reports success whatever incrementUserPoints returned.
ScanConfirm_IgnoresResult(r) ==
    LET oppositeGender == OppositeGender(r.userGender)
        expectedTargetId == SelectedOf(oppositeGender)
        incremented == incrementUserPoints(r.userId, r.scannedTargetId)
        updatedPoints == getUserPointsFrom(incremented.file, r.userId)
    IN IF expectedTargetId = NULL
       THEN [file |-> pointsFile,
             response |-> [op |-> "scan-nfc", status |-> 404, req |-> r,
                           error |-> IF oppositeGender = "M"
                                     THEN "No male target currently selected"
                                     ELSE "No female target currently selected",
                           userGender |-> r.userGender,
                           oppositeGender |-> oppositeGender]]
       ELSE IF r.scannedTargetId # expectedTargetId
       THEN [file |-> pointsFile,
             response |-> [op |-> "scan-nfc", status |-> 400, req |-> r,
                           success |-> FALSE,
                           error |-> "Scanned user is not your current target",
                           scannedTargetId |-> r.scannedTargetId,
                           expectedTargetId |-> expectedTargetId]]
       ELSE [file |-> incremented.file,
             response |-> [op |-> "scan-nfc", status |-> 200, req |-> r,
                           success |-> TRUE,
                           userId |-> r.userId,
                           scannedTargetId |-> r.scannedTargetId,
                           pointsEarned |-> 1,
                           totalPoints |-> updatedPoints.points,
                           scannedTargets |-> Len(updatedPoints.scannedTargets)]]

\* A confirmation that first requires the scanner and the scanned target to
\* have stored fixes at most 100 metres apart.
ScanConfirm_RequiresProximity(r) ==
    LET oppositeGender == OppositeGender(r.userGender)
        expectedTargetId == SelectedOf(oppositeGender)
        incremented == incrementUserPoints(r.userId, r.scannedTargetId)
        updatedPoints == getUserPointsFrom(incremented.file, r.userId)
        near == /\ r.userId \in DOMAIN userLocations
                /\ r.scannedTargetId \in DOMAIN userLocations
                /\ calculateDistance(
                       userLocations[r.userId].coordinates.latitude,
                       userLocations[r.userId].coordinates.longitude,
                       userLocations[r.scannedTargetId].coordinates.latitude,
                       userLocations[r.scannedTargetId].coordinates.longitude) <= 100
    IN IF expectedTargetId = NULL
       THEN [file |-> pointsFile,
             response |-> [op |-> "scan-nfc", status |-> 404, req |-> r,
                           error |-> "No target currently selected",
                           userGender |-> r.userGender,
                           oppositeGender |-> oppositeGender]]
       ELSE IF r.scannedTargetId # expectedTargetId \/ ~near
       THEN [file |-> pointsFile,
             response |-> [op |-> "scan-nfc", status |-> 400, req |-> r,
                           success |-> FALSE,
                           error |-> "Scanned user is not your current target",
                           scannedTargetId |-> r.scannedTargetId,
                           expectedTargetId |-> expectedTargetId]]
       ELSE IF ~incremented.accepted
       THEN [file |-> incremented.file,
             response |-> [op |-> "scan-nfc", status |-> 400, req |-> r,
                           success |-> FALSE,
                           error |-> "Points not incremented",
                           reason |-> "You have already scanned this target",
                           scannedTargetId |-> r.scannedTargetId]]
       ELSE [file |-> incremented.file,
             response |-> [op |-> "scan-nfc", status |-> 200, req |-> r,
                           success |-> TRUE,
                           userId |-> r.userId,
                           scannedTargetId |-> r.scannedTargetId,
                           pointsEarned |-> 1,
                           totalPoints |-> updatedPoints.points,
                           scannedTargets |-> Len(updatedPoints.scannedTargets)]]

\* The handler from the selection read to its response: [response, file].
ScanConfirm(r) ==
    LET oppositeGender == OppositeGender(r.userGender)
        expectedTargetId == SelectedOf(oppositeGender)
        incremented == incrementUserPoints(r.userId, r.scannedTargetId)
        updatedPoints == getUserPointsFrom(incremented.file, r.userId)
    IN IF expectedTargetId = NULL
       THEN [file |-> pointsFile,
             response |-> [op |-> "scan-nfc", status |-> 404, req |-> r,
                           error |-> IF oppositeGender = "M"
                                     THEN "No male target currently selected"
                                     ELSE "No female target currently selected",
                           userGender |-> r.userGender,
                           oppositeGender |-> oppositeGender]]
       ELSE IF r.scannedTargetId # expectedTargetId
       THEN [file |-> pointsFile,
             response |-> [op |-> "scan-nfc", status |-> 400, req |-> r,
                           success |-> FALSE,
                           error |-> "Scanned user is not your current target",
                           scannedTargetId |-> r.scannedTargetId,
                           expectedTargetId |-> expectedTargetId]]
       ELSE IF ~incremented.accepted
       THEN [file |-> incremented.file,
             response |-> [op |-> "scan-nfc", status |-> 400, req |-> r,
                           success |-> FALSE,
                           error |-> "Points not incremented",
                           reason |-> "You have already scanned this target",
                           scannedTargetId |-> r.scannedTargetId]]
       ELSE [file |-> incremented.file,
             response |-> [op |-> "scan-nfc", status |-> 200, req |-> r,
                           success |-> TRUE,
                           userId |-> r.userId,
                           scannedTargetId |-> r.scannedTargetId,
                           pointsEarned |-> 1,
                           totalPoints |-> updatedPoints.points,
                           scannedTargets |-> Len(updatedPoints.scannedTargets)]]

ScanFinish(r) ==
    /\ r \in Suspended
    /\ r.op = "scan-nfc"
    /\ r.stage = "selection"
    /\ pointsFile' = ScanConfirm(r).file
    /\ out' = ScanConfirm(r).response
    /\ reqs' = Resume(r)
    /\ UNCHANGED <<profileStore, urlStore, diskWritable, userLocations,
                   selectedUsers, now, runs, wsClients, readyState, targetUpdates,
                   nRuns, nGps, nSetGender, sendThrows, arrived, profilesReadable, server>>

\* ---------------------------------------------- GET /etgl/target/:worldid

TargetResolved(r) ==
    IF r.userId = NULL \/ r.userGender = NoGender
    THEN ProfileNotFound("target", r.worldid)
    ELSE NoOutput

TargetBegin(worldid) ==
    /\ IF worldid = NoWorldId
       THEN /\ out' = [op |-> "target", status |-> 400,
                       error |-> "World ID parameter is required"]
            /\ UNCHANGED reqs
       ELSE LET profiles == getAllProfiles
                userId == FindByWorldId(profiles, worldid)
                found == Request("target", "selection", worldid, userId,
                                 IF userId # NULL THEN profiles[userId].gender
                                 ELSE NoGender,
                                 NULL)
            IN IF userId = NULL
               THEN /\ reqs' = Suspend(Request("target", "url", worldid, NULL,
                                               NoGender, NULL))
                    /\ out' = NoOutput
               ELSE /\ out' = TargetResolved(found)
                    /\ reqs' = IF TargetResolved(found) = NoOutput
                               THEN Suspend(found) ELSE reqs
    /\ UNCHANGED <<profileStore, urlStore, pointsFile, diskWritable, userLocations,
                   selectedUsers, now, runs, wsClients, readyState, targetUpdates,
                   nRuns, nGps, nSetGender, sendThrows, arrived, profilesReadable, server>>

TargetUrlLookup(r) ==
    /\ r \in Suspended
    /\ r.op = "target"
    /\ r.stage = "url"
    /\ out' = TargetResolved(UrlLookup(r))
    /\ reqs' = IF TargetResolved(UrlLookup(r)) = NoOutput
               THEN Resume(r) (+) SetToBag({UrlLookup(r)})
               ELSE Resume(r)
    /\ UNCHANGED <<profileStore, urlStore, pointsFile, diskWritable, userLocations,
                   selectedUsers, now, runs, wsClients, readyState, targetUpdates,
                   nRuns, nGps, nSetGender, sendThrows, arrived, profilesReadable, server>>

\* TargetLookup that reads the location of the requester.
TargetLookup_RequesterLocation(r) ==
    LET oppositeGender == OppositeGender(r.userGender)
        targetUserId == SelectedOf(oppositeGender)
    IN IF targetUserId = NULL
       THEN [op |-> "target", status |-> 404, req |-> r,
             error |-> IF oppositeGender = "M"
                       THEN "No male target currently selected"
                       ELSE "No female target currently selected",
             userGender |-> r.userGender, oppositeGender |-> oppositeGender,
             selectedUsers |-> selectedUsers]
       ELSE IF r.userId \notin DOMAIN userLocations
       THEN [op |-> "target", status |-> 404, req |-> r,
             error |-> "Target location not available",
             targetUserId |-> targetUserId]
       ELSE [op |-> "target", status |-> 200, req |-> r,
             userId |-> r.userId, userGender |-> r.userGender,
             targetGender |-> oppositeGender,
             targetUserId |-> targetUserId,
             coordinates |-> userLocations[r.userId].coordinates,
             lastUpdated |-> userLocations[r.userId].lastUpdated,
             selectedAt |-> selectedUsers.selectedAt]

\* The handler from the selection read to its response.
TargetLookup(r) ==
    LET oppositeGender == OppositeGender(r.userGender)
        targetUserId == SelectedOf(oppositeGender)
    IN IF targetUserId = NULL
       THEN [op |-> "target", status |-> 404, req |-> r,
             error |-> IF oppositeGender = "M"
                       THEN "No male target currently selected"
                       ELSE "No female target currently selected",
             userGender |-> r.userGender, oppositeGender |-> oppositeGender,
             selectedUsers |-> selectedUsers]
       ELSE IF targetUserId \notin DOMAIN userLocations
       THEN [op |-> "target", status |-> 404, req |-> r,
             error |-> "Target location not available",
             targetUserId |-> targetUserId]
       ELSE [op |-> "target", status |-> 200, req |-> r,
             userId |-> r.userId, userGender |-> r.userGender,
             targetGender |-> oppositeGender,
             targetUserId |-> targetUserId,
             coordinates |-> userLocations[targetUserId].coordinates,
             lastUpdated |-> userLocations[targetUserId].lastUpdated,
             selectedAt |-> selectedUsers.selectedAt]

TargetFinish(r) ==
    /\ r \in Suspended
    /\ r.op = "target"
    /\ r.stage = "selection"
    /\ out' = TargetLookup(r)
    /\ reqs' = Resume(r)
    /\ UNCHANGED <<profileStore, urlStore, pointsFile, diskWritable, userLocations,
                   selectedUsers, now, runs, wsClients, readyState, targetUpdates,
                   nRuns, nGps, nSetGender, sendThrows, arrived, profilesReadable, server>>

\* -------------- POST /etgl/verify-proximity/:userId/:targetUserId

\* verifyProximity that answers 404 only when both locations are missing, a
\* missing one read as the origin.
verifyProximity_BothMissing(userId, targetUserId) ==
    IF userId \notin DOMAIN userLocations /\ targetUserId \notin DOMAIN userLocations
    THEN [op |-> "verify-proximity", status |-> 404,
          userId |-> userId, targetUserId |-> targetUserId,
          error |-> "Location data not found for one or both users",
          verified |-> FALSE]
    ELSE LET origin == [latitude |-> 0, longitude |-> 0, accuracy |-> 0, timestamp |-> 0]
             userLocation == IF userId \in DOMAIN userLocations
                             THEN userLocations[userId]
                             ELSE [coordinates |-> origin]
             targetLocation == IF targetUserId \in DOMAIN userLocations
                               THEN userLocations[targetUserId]
                               ELSE [coordinates |-> origin]
             distance == calculateDistance(userLocation.coordinates.latitude,
                                           userLocation.coordinates.longitude,
                                           targetLocation.coordinates.latitude,
                                           targetLocation.coordinates.longitude)
             isInProximity == distance <= 100
         IN [op |-> "verify-proximity", status |-> 200,
             userId |-> userId, targetUserId |-> targetUserId,
             verified |-> isInProximity,
             distance |-> distance,
             threshold |-> 100,
             userLocation |-> userLocation.coordinates,
             targetLocation |-> targetLocation.coordinates]

\* verifyProximity with distance < 100.
verifyProximity_StrictlyLess(userId, targetUserId) ==
    IF userId \notin DOMAIN userLocations \/ targetUserId \notin DOMAIN userLocations
    THEN [op |-> "verify-proximity", status |-> 404,
          userId |-> userId, targetUserId |-> targetUserId,
          error |-> "Location data not found for one or both users",
          verified |-> FALSE]
    ELSE LET userLocation == userLocations[userId]
             targetLocation == userLocations[targetUserId]
             distance == calculateDistance(userLocation.coordinates.latitude,
                                           userLocation.coordinates.longitude,
                                           targetLocation.coordinates.latitude,
                                           targetLocation.coordinates.longitude)
             isInProximity == distance < 100
         IN [op |-> "verify-proximity", status |-> 200,
             userId |-> userId, targetUserId |-> targetUserId,
             verified |-> isInProximity,
             distance |-> distance,
             threshold |-> 100,
             userLocation |-> userLocation.coordinates,
             targetLocation |-> targetLocation.coordinates]

verifyProximity(userId, targetUserId) ==
    IF userId \notin DOMAIN userLocations \/ targetUserId \notin DOMAIN userLocations
    THEN [op |-> "verify-proximity", status |-> 404,
          userId |-> userId, targetUserId |-> targetUserId,
          error |-> "Location data not found for one or both users",
          verified |-> FALSE]
    ELSE LET userLocation == userLocations[userId]
             targetLocation == userLocations[targetUserId]
             distance == calculateDistance(userLocation.coordinates.latitude,
                                           userLocation.coordinates.longitude,
                                           targetLocation.coordinates.latitude,
                                           targetLocation.coordinates.longitude)
             isInProximity == distance <= 100
         IN [op |-> "verify-proximity", status |-> 200,
             userId |-> userId, targetUserId |-> targetUserId,
             verified |-> isInProximity,
             distance |-> distance,
             threshold |-> 100,
             userLocation |-> userLocation.coordinates,
             targetLocation |-> targetLocation.coordinates]

VerifyProximity(userId, targetUserId) ==
    /\ out' = verifyProximity(userId, targetUserId)
    /\ UNCHANGED <<profileStore, urlStore, pointsFile, diskWritable, userLocations,
                   selectedUsers, now, runs, reqs, wsClients, readyState,
                   targetUpdates, nRuns, nGps, nSetGender, sendThrows, arrived, profilesReadable, server>>

\* ------------------------------------------------------ points reads

\* GET /etgl/points/:userId that saves the record it made for a participant
\* without one.
GetPoints_SavesDefault(userId) ==
    /\ LET userPoints == getUserPoints(userId)
       IN /\ out' = [op |-> "points", status |-> 200, userId |-> userId,
                     points |-> userPoints.points,
                     scannedTargetsCount |-> Len(userPoints.scannedTargets),
                     scannedTargets |-> userPoints.scannedTargets,
                     lastUpdated |-> userPoints.lastUpdated]
          /\ pointsFile' = IF PointsIndex(loadPoints, userId) = 0
                           THEN savePoints(Append(loadPoints, userPoints))
                           ELSE pointsFile
    /\ UNCHANGED <<profileStore, urlStore, diskWritable, userLocations,
                   selectedUsers, now, runs, reqs, wsClients, readyState,
                   targetUpdates, nRuns, nGps, nSetGender, sendThrows, arrived, profilesReadable, server>>

\* GET /etgl/points/:userId
GetPoints(userId) ==
    /\ LET userPoints == getUserPoints(userId)
       IN out' = [op |-> "points", status |-> 200, userId |-> userId,
                  points |-> userPoints.points,
                  scannedTargetsCount |-> Len(userPoints.scannedTargets),
                  scannedTargets |-> userPoints.scannedTargets,
                  lastUpdated |-> userPoints.lastUpdated]
    /\ UNCHANGED <<profileStore, urlStore, pointsFile, diskWritable, userLocations,
                   selectedUsers, now, runs, reqs, wsClients, readyState,
                   targetUpdates, nRuns, nGps, nSetGender, sendThrows, arrived, profilesReadable, server>>

\* A sort by (a, b) => a.points - b.points.
RECURSIVE SortInsert_Ascending(_, _)
SortInsert_Ascending(sorted, x) ==
    IF sorted = <<>> THEN <<x>>
    ELSE IF Head(sorted).points > x.points THEN <<x>> \o sorted
    ELSE <<Head(sorted)>> \o SortInsert_Ascending(Tail(sorted), x)

\* Array.prototype.sort((a, b) => b.points - a.points): a stable sort.
RECURSIVE SortInsert(_, _)
SortInsert(sorted, x) ==
    IF sorted = <<>> THEN <<x>>
    ELSE IF Head(sorted).points < x.points THEN <<x>> \o sorted
    ELSE <<Head(sorted)>> \o SortInsert(Tail(sorted), x)

RECURSIVE SortByPoints(_)
SortByPoints(records) ==
    IF records = <<>> THEN <<>>
    ELSE SortInsert(SortByPoints(SubSeq(records, 1, Len(records) - 1)),
                    records[Len(records)])

LeaderboardEntry(userPoints) ==
    [userId |-> userPoints.userId, points |-> userPoints.points,
     scannedTargetsCount |-> Len(userPoints.scannedTargets),
     lastUpdated |-> userPoints.lastUpdated]

\* GET /etgl/leaderboard
Leaderboard ==
    /\ LET sorted == SortByPoints(loadPoints)
           leaderboard == [i \in 1..Len(sorted) |-> LeaderboardEntry(sorted[i])]
       IN out' = [op |-> "leaderboard", status |-> 200,
                  leaderboard |-> leaderboard, totalUsers |-> Len(leaderboard)]
    /\ UNCHANGED <<profileStore, urlStore, pointsFile, diskWritable, userLocations,
                   selectedUsers, now, runs, reqs, wsClients, readyState,
                   targetUpdates, nRuns, nGps, nSetGender, sendThrows, arrived, profilesReadable, server>>

\* ------------------------------------------------ WebSocket status reads

\* GET /etgl/ws/status
Status ==
    /\ out' = [op |-> "ws/status", status |-> 200,
               connections |-> Len(wsClients),
               locations |-> [active |-> Cardinality(DOMAIN userLocations),
                              users |-> DOMAIN userLocations],
               selectedUsers |-> selectedUsers]
    /\ UNCHANGED <<profileStore, urlStore, pointsFile, diskWritable, userLocations,
                   selectedUsers, now, runs, reqs, wsClients, readyState,
                   targetUpdates, nRuns, nGps, nSetGender, sendThrows, arrived, profilesReadable, server>>

\* GET /etgl/ws/locations
Locations ==
    /\ out' = [op |-> "ws/locations", status |-> 200,
               count |-> Cardinality(LocationValues), locations |-> LocationValues]
    /\ UNCHANGED <<profileStore, urlStore, pointsFile, diskWritable, userLocations,
                   selectedUsers, now, runs, reqs, wsClients, readyState,
                   targetUpdates, nRuns, nGps, nSetGender, sendThrows, arrived, profilesReadable, server>>

\* GET /etgl/ws/selected
Selected ==
    /\ out' = [op |-> "ws/selected", status |-> 200, selectedUsers |-> selectedUsers]
    /\ UNCHANGED <<profileStore, urlStore, pointsFile, diskWritable, userLocations,
                   selectedUsers, now, runs, reqs, wsClients, readyState,
                   targetUpdates, nRuns, nGps, nSetGender, sendThrows, arrived, profilesReadable, server>>

\* ------------------------------------------------- WebSocket server

\* wss.on('connection') sending the locations before the selection.
Connection_LocationsFirst(ws) ==
    /\ readyState[ws] = "CONNECTING"
    /\ \A other \in Sockets : readyState[other] = "CONNECTING" => ws <= other
    /\ readyState' = [readyState EXCEPT ![ws] = "OPEN"]
    /\ wsClients' = Append(wsClients, [ws |-> ws, id |-> ws, connectedAt |-> now,
                                       lastActivity |-> now])
    /\ out' = WsOutput(<<[to |-> ws, message |-> LocationSnapshotMessage(LocationValues)],
                         [to |-> ws, message |-> SelectedUsersMessage(selectedUsers)]>>)
    /\ UNCHANGED <<profileStore, urlStore, pointsFile, diskWritable, userLocations,
                   selectedUsers, now, runs, reqs, targetUpdates,
                   nRuns, nGps, nSetGender, sendThrows, arrived, profilesReadable, server>>

\* wss.on('connection'): the client is registered and sent the selection
\* and the locations.  Sockets are accepted in the order of their names.
Connection(ws) ==
    /\ readyState[ws] = "CONNECTING"
    /\ \A other \in Sockets : readyState[other] = "CONNECTING" => ws <= other
    /\ readyState' = [readyState EXCEPT ![ws] = "OPEN"]
    /\ wsClients' = Append(wsClients, [ws |-> ws, id |-> ws, connectedAt |-> now,
                                       lastActivity |-> now])
    /\ out' = WsOutput(<<[to |-> ws, message |-> SelectedUsersMessage(selectedUsers)],
                         [to |-> ws, message |-> LocationSnapshotMessage(LocationValues)]>>)
    /\ UNCHANGED <<profileStore, urlStore, pointsFile, diskWritable, userLocations,
                   selectedUsers, now, runs, reqs, targetUpdates,
                   nRuns, nGps, nSetGender, sendThrows, arrived, profilesReadable, server>>

\* The peer goes away: the socket leaves OPEN before its 'close' event.
SocketCloses(ws) ==
    /\ readyState[ws] = "OPEN"
    /\ readyState' = [readyState EXCEPT ![ws] = "CLOSED"]
    /\ out' = NoOutput
    /\ UNCHANGED <<profileStore, urlStore, pointsFile, diskWritable, userLocations,
                   selectedUsers, now, runs, reqs, wsClients, targetUpdates,
                   nRuns, nGps, nSetGender, sendThrows, arrived, profilesReadable, server>>

\* ws.on('close') and ws.on('error')
OnClose(ws) ==
    /\ readyState[ws] = "CLOSED"
    /\ ClientIndex(wsClients, ws) > 0
    /\ wsClients' = MapDelete(wsClients, ws)
    /\ out' = NoOutput
    /\ UNCHANGED <<profileStore, urlStore, pointsFile, diskWritable, userLocations,
                   selectedUsers, now, runs, reqs, readyState, targetUpdates,
                   nRuns, nGps, nSetGender, sendThrows, arrived, profilesReadable, server>>

\* ws.on('error'): the socket reports an error, open or not.
OnError(ws) ==
    /\ readyState[ws] # "CONNECTING"
    /\ ClientIndex(wsClients, ws) > 0
    /\ wsClients' = MapDelete(wsClients, ws)
    /\ out' = Logged("error", "CONNECTION", "WebSocket connection error", ws)
    /\ UNCHANGED <<profileStore, urlStore, pointsFile, diskWritable, userLocations,
                   selectedUsers, now, runs, reqs, readyState, targetUpdates,
                   nRuns, nGps, nSetGender, sendThrows, arrived, profilesReadable, server>>

\* ws.on('message'): clientInfo.lastActivity = Date.now()
MessageTouch(clients, ws) ==
    [i \in 1..Len(clients) |->
        IF clients[i].ws = ws THEN [clients[i] EXCEPT !.lastActivity = now]
        ELSE clients[i]]

\* A store that keeps the fix captured later.
SetLocation_LaterCapture(locations, userLocation) ==
    IF /\ userLocation.userId \in DOMAIN locations
       /\ locations[userLocation.userId].coordinates.timestamp
             > userLocation.coordinates.timestamp
    THEN locations
    ELSE (userLocation.userId :> userLocation) @@ locations

\* userLocations.set(message.userId, userLocation)
SetLocation(locations, userLocation) ==
    (userLocation.userId :> userLocation) @@ locations

\* case 'gps_update' with userId and data
GpsUpdate(ws, userId, data) ==
    /\ readyState[ws] = "OPEN"
    /\ userId # NULL
    /\ LET userLocation == [userId |-> userId, coordinates |-> data,
                            lastUpdated |-> now]
           clients == MessageTouch(wsClients, ws)
       IN /\ userLocations' = SetLocation(userLocations, userLocation)
          /\ wsClients' = BroadcastTouch(clients)
          /\ out' = WsOutput(BroadcastSends(clients, GpsUpdateMessage(userLocation)))
          /\ targetUpdates' =
                IF userId = selectedUsers.male \/ userId = selectedUsers.female
                THEN Append(targetUpdates,
                            [userId |-> userId,
                             gender |-> IF userId \in DOMAIN getAllProfiles
                                        THEN getAllProfiles[userId].gender
                                        ELSE NoGender,
                             location |-> userLocation])
                ELSE targetUpdates
    /\ nGps' = nGps + 1
    /\ arrived' = Append(arrived, [userId |-> userId, data |-> data])
    /\ UNCHANGED <<profileStore, urlStore, pointsFile, diskWritable,
                   selectedUsers, now, runs, reqs, readyState, nRuns, nSetGender,
                   sendThrows, profilesReadable, server>>

\* case 'gps_update' without userId or without data: logged and dropped
GpsUpdateInvalid(ws) ==
    /\ readyState[ws] = "OPEN"
    /\ wsClients' = MessageTouch(wsClients, ws)
    /\ out' = Logged("warn", "GPS_UPDATE",
                     "Invalid GPS update message - missing userId or data", ws)
    /\ UNCHANGED <<profileStore, urlStore, pointsFile, diskWritable, userLocations,
                   selectedUsers, now, runs, reqs, readyState, targetUpdates,
                   nRuns, nGps, nSetGender, sendThrows, arrived, profilesReadable, server>>

\* A message that handleWebSocketMessage logs and drops: JSON.parse throws,
\* the type is none of the cases, or a user_selection lacks its ids.
IgnoredMessages ==
    {[level |-> "error", category |-> "MESSAGE_IN",
      message |-> "Error parsing WebSocket message"],
     [level |-> "warn", category |-> "MESSAGE_IN",
      message |-> "Unknown message type received"],
     [level |-> "warn", category |-> "USER_SELECTION",
      message |-> "Invalid user selection message - missing userId or selectedUserId"]}

\* ws.on('message') closing the connection of a message it drops.
MessageIgnored_Closes(ws, log) ==
    /\ readyState[ws] = "OPEN"
    /\ readyState' = [readyState EXCEPT ![ws] = "CLOSED"]
    /\ wsClients' = MapDelete(wsClients, ws)
    /\ out' = Logged(log.level, log.category, log.message, ws)
    /\ UNCHANGED <<profileStore, urlStore, pointsFile, diskWritable, userLocations,
                   selectedUsers, now, runs, reqs, targetUpdates,
                   nRuns, nGps, nSetGender, sendThrows, arrived, profilesReadable, server>>

\* ws.on('message') for a message that is logged and dropped
MessageIgnored(ws, log) ==
    /\ readyState[ws] = "OPEN"
    /\ wsClients' = MessageTouch(wsClients, ws)
    /\ out' = Logged(log.level, log.category, log.message, ws)
    /\ UNCHANGED <<profileStore, urlStore, pointsFile, diskWritable, userLocations,
                   selectedUsers, now, runs, reqs, readyState, targetUpdates,
                   nRuns, nGps, nSetGender, sendThrows, arrived, profilesReadable, server>>

UserSelectionMessage(userId, selectedUserId, distance) ==
    [type |-> "user_selection", userId |-> userId,
     data |-> [selectedUserId |-> selectedUserId, confirmed |-> TRUE,
               distance |-> distance]]
UserSelectionRejection(selectedUserId, distance) ==
    [type |-> "user_selection",
     data |-> [selectedUserId |-> selectedUserId, confirmed |-> FALSE,
               reason |-> "Too far away", distance |-> distance]]

\* A user_selection that is confirmed whenever both locations are stored,
\* whatever the distance.
UserSelection_AnyDistance(ws, userId, selectedUserId) ==
    /\ readyState[ws] = "OPEN"
    /\ LET clients == MessageTouch(wsClients, ws)
       IN IF userId \notin DOMAIN userLocations
             \/ selectedUserId \notin DOMAIN userLocations
          THEN /\ wsClients' = clients
               /\ out' = Logged("warn", "USER_SELECTION",
                                "Location data missing for proximity verification", ws)
          ELSE LET distance == calculateDistance(
                                   userLocations[userId].coordinates.latitude,
                                   userLocations[userId].coordinates.longitude,
                                   userLocations[selectedUserId].coordinates.latitude,
                                   userLocations[selectedUserId].coordinates.longitude)
               IN /\ wsClients' = BroadcastTouch(clients)
                  /\ out' = WsOutput(BroadcastSends(clients,
                                UserSelectionMessage(userId, selectedUserId, distance)))
    /\ UNCHANGED <<profileStore, urlStore, pointsFile, diskWritable, userLocations,
                   selectedUsers, now, runs, reqs, readyState, targetUpdates,
                   nRuns, nGps, nSetGender, sendThrows, arrived, profilesReadable, server>>

\* case 'user_selection' with userId and data.selectedUserId
UserSelection(ws, userId, selectedUserId) ==
    /\ readyState[ws] = "OPEN"
    /\ LET clients == MessageTouch(wsClients, ws)
       IN IF userId \notin DOMAIN userLocations
             \/ selectedUserId \notin DOMAIN userLocations
          THEN /\ wsClients' = clients
               /\ out' = Logged("warn", "USER_SELECTION",
                                "Location data missing for proximity verification", ws)
          ELSE LET distance == calculateDistance(
                                   userLocations[userId].coordinates.latitude,
                                   userLocations[userId].coordinates.longitude,
                                   userLocations[selectedUserId].coordinates.latitude,
                                   userLocations[selectedUserId].coordinates.longitude)
               IN IF distance <= 100
                  THEN /\ wsClients' = BroadcastTouch(clients)
                       /\ out' = WsOutput(BroadcastSends(clients,
                                     UserSelectionMessage(userId, selectedUserId, distance)))
                  ELSE /\ wsClients' = clients
                       /\ out' = WsOutput(
                              IF ws \in sendThrows THEN <<>>
                              ELSE <<[to |-> ws,
                                      message |-> UserSelectionRejection(selectedUserId,
                                                                         distance)]>>)
    /\ UNCHANGED <<profileStore, urlStore, pointsFile, diskWritable, userLocations,
                   selectedUsers, now, runs, reqs, readyState, targetUpdates,
                   nRuns, nGps, nSetGender, sendThrows, arrived, profilesReadable, server>>

\* The connection of an open socket breaks underneath it: its send() throws
\* from now on.
SendBreaks(ws) ==
    /\ readyState[ws] = "OPEN"
    /\ ws \notin sendThrows
    /\ sendThrows' = sendThrows \cup {ws}
    /\ out' = NoOutput
    /\ UNCHANGED <<profileStore, urlStore, pointsFile, diskWritable, userLocations,
                   selectedUsers, now, runs, reqs, wsClients, readyState,
                   targetUpdates, nRuns, nGps, nSetGender, arrived, profilesReadable, server>>

\* A sweep that deletes nothing.
OpenClients_KeepsAll(clients) == clients

\* removeInactiveClients: the clients whose socket is OPEN stay.
RECURSIVE OpenClients(_)
OpenClients(clients) ==
    IF clients = <<>> THEN <<>>
    ELSE (IF readyState[Head(clients).ws] = "OPEN" THEN <<Head(clients)>> ELSE <<>>)
         \o OpenClients(Tail(clients))

\* setInterval(removeInactiveClients, 60000)
RemoveInactiveClients ==
    /\ wsClients' = OpenClients(wsClients)
    /\ out' = IF Len(OpenClients(wsClients)) < Len(wsClients)
              THEN Logged("info", "CLEANUP", "Cleanup completed", NULL)
              ELSE NoOutput
    /\ UNCHANGED <<profileStore, urlStore, pointsFile, diskWritable, userLocations,
                   selectedUsers, now, runs, reqs, readyState, targetUpdates,
                   nRuns, nGps, nSetGender, sendThrows, arrived, profilesReadable, server>>

\* getAllProfiles().then(...) of gps_update: the target_update broadcast
TargetUpdate ==
    /\ targetUpdates # <<>>
    /\ LET update == Head(targetUpdates)
       IN out' = WsOutput(BroadcastSends(wsClients,
                    TargetUpdateMessage(update.userId, update.gender, update.location)))
    /\ wsClients' = BroadcastTouch(wsClients)
    /\ targetUpdates' = Tail(targetUpdates)
    /\ UNCHANGED <<profileStore, urlStore, pointsFile, diskWritable, userLocations,
                   selectedUsers, now, runs, reqs, readyState,
                   nRuns, nGps, nSetGender, sendThrows, arrived, profilesReadable, server>>

\* ------------------------------------------------------ specifications

\* The environment's choices.
Scan == \E worldid \in RequestWorldIds, scannedUrl \in ScannedUrls :
            ScanBegin(worldid, scannedUrl)
ScanStep == \E r \in Suspended : ScanUrlLookup(r) \/ ScanFinish(r)
\* The route /etgl/target/:worldid matches a non-empty worldid only.
Target == \E worldid \in RequestWorldIds \ {NoWorldId} : TargetBegin(worldid)
TargetStep == \E r \in Suspended : TargetUrlLookup(r) \/ TargetFinish(r)
Profile == \E key \in Keys \cup {9}, gender \in SetGenderInputs,
              worldid \in {NoWorldId, 12} : SetGender(key, gender, worldid)
Points == \E userId \in Keys \cup {9} : GetPoints(userId)
Proximity == \E userId \in Users, targetUserId \in Users :
                 VerifyProximity(userId, targetUserId)
Connect == \E ws \in Sockets : Connection(ws)
Disconnect == \E ws \in Sockets : SocketCloses(ws) \/ OnClose(ws)
Gps == \E ws \in Sockets :
          \/ \E userId \in Users, data \in Fixes : GpsUpdate(ws, userId, data)
          \/ GpsUpdateInvalid(ws)

\* The budget of runs, location updates and profile changes.
FrameBudget == nRuns + nGps + nSetGender < MaxSteps

\* Scans one at a time, against selection runs and profile changes.
Next ==
    \/ nRuns < MaxRuns /\ (SelectTimer \/ SelectNew)
    \/ SelectFinish
    \/ nSetGender < MaxSetGender /\ Profile
    \/ BagCardinality(reqs) < MaxInflight /\ Scan
    \/ ScanStep

Spec == Init /\ [][Next]_vars

\* Concurrent scans, against selection runs.
NextConcurrent ==
    \/ nRuns < MaxRuns /\ (SelectTimer \/ SelectNew)
    \/ SelectFinish
    \/ BagCardinality(reqs) < MaxConcurrent /\ Scan
    \/ ScanStep

SpecConcurrent == Init /\ [][NextConcurrent]_vars

\* Locations, their readers and the selection.
NextLocation ==
    \/ Len(wsClients) < MaxClients /\ Connect
    \/ FrameBudget /\ nGps < MaxGpsUpdates /\ Gps
    \/ TargetUpdate
    \/ FrameBudget /\ SelectTimer
    \/ SelectFinish
    \/ BagCardinality(reqs) < MaxInflight /\ Target
    \/ TargetStep
    \/ Proximity

SpecLocation == Init /\ [][NextLocation]_vars

\* The event loop takes its next event (a timer, a request, a connection)
\* when the microtask queue is empty: no run waits to resume.
TurnOver == getAllProfilesAwaitsIO \/ runs = <<>>

\* The triggers of selection runs, turn by turn, against profile changes,
\* selection reads and new connections.
NextTurns ==
    \/ TurnOver /\ nRuns < MaxRuns /\ (SelectTimer \/ SelectNew)
    \/ SelectFinish
    \/ TurnOver /\ nSetGender < MaxSetGender /\ Profile
    \/ TurnOver /\ Selected
    \/ TurnOver /\ Len(wsClients) < MaxClients /\ Connect

SpecTurns == Init /\ [][NextTurns]_vars

\* ./etgl.json becomes unreadable (missing, truncated, not JSON) and
\* readable again.
ReadFails ==
    /\ profilesReadable
    /\ profilesReadable' = FALSE
    /\ out' = NoOutput
    /\ UNCHANGED <<profileStore, urlStore, pointsFile, diskWritable, userLocations,
                   selectedUsers, now, runs, reqs, wsClients, readyState,
                   targetUpdates, nRuns, nGps, nSetGender, sendThrows, arrived, server>>
ReadRecovers ==
    /\ ~profilesReadable
    /\ profilesReadable' = TRUE
    /\ out' = NoOutput
    /\ UNCHANGED <<profileStore, urlStore, pointsFile, diskWritable, userLocations,
                   selectedUsers, now, runs, reqs, wsClients, readyState,
                   targetUpdates, nRuns, nGps, nSetGender, sendThrows, arrived, server>>

\* The selection runs against a profile file that comes and goes and
\* connections that break.
NextScheduler ==
    \/ nRuns < MaxRuns /\ (SelectTimer \/ SelectNew)
    \/ SelectFinish
    \/ ReadFails
    \/ ReadRecovers
    \/ Len(wsClients) < MaxClients /\ Connect
    \/ \E ws \in Sockets : SendBreaks(ws)
    \/ Disconnect
    \/ Selected

SpecScheduler == Init /\ [][NextScheduler]_vars

\* A run suspended at its await is resumed: the promise it awaits is settled.
SpecSchedulerFair == SpecScheduler /\ WF_vars(SelectFinish)

\* The registry of connections against closes, errors, the sweep and the
\* selection broadcasts.  The sweep's interval timer keeps firing.
NextRegistry ==
    \/ Len(wsClients) < MaxRegistered /\ Connect
    \/ Disconnect
    \/ \E ws \in Sockets : OnError(ws)
    \/ RemoveInactiveClients
    \/ nRuns < MaxRuns /\ SelectTimer
    \/ SelectFinish

SpecRegistry == Init /\ [][NextRegistry]_vars /\ WF_vars(RemoveInactiveClients)

\* The connections, their messages and the fan-outs to them: two
\* participants, two fixes of which the later captured arrives in any order.
FanoutBudget == nRuns + nGps < MaxFanoutSteps
FanoutGps == \E ws \in Sockets, userId \in {1, 2},
                data \in {f \in Fixes : f.longitude < 100} :
                GpsUpdate(ws, userId, data)
Ignored == \E ws \in Sockets :
              \/ GpsUpdateInvalid(ws)
              \/ \E log \in IgnoredMessages : MessageIgnored(ws, log)
Selection == \E ws \in Sockets, selectedUserId \in {1, 2} :
                UserSelection(ws, 1, selectedUserId)

NextFanout ==
    \/ Len(wsClients) < MaxRegistered /\ Connect
    \/ VerifyProximity(1, 2)
    \/ Disconnect
    \/ \E ws \in Sockets : SendBreaks(ws)
    \/ RemoveInactiveClients
    \/ FanoutBudget /\ FanoutGps
    \/ Ignored
    \/ Selection
    \/ TargetUpdate
    \/ FanoutBudget /\ SelectTimer
    \/ SelectFinish
    \/ Locations

SpecFanout == Init /\ [][NextFanout]_vars

\* The points files a server may find at start: up to MaxLedger records of
\* different participants, with totals of earlier redemptions.
LedgerTotals == {3, 5, 10}
LedgerRecord(userId, points) ==
    [userId |-> userId, points |-> points, lastUpdated |-> 0,
     scannedTargets |-> [i \in 1..points |-> 20 + i]]
Ledgers ==
    {ledger \in UNION {[1..n -> {LedgerRecord(u, p) : u \in Users, p \in LedgerTotals}] :
                          n \in 0..MaxLedger} :
        \A i, j \in 1..Len(ledger) : ledger[i].userId = ledger[j].userId => i = j}

\* The server starts on a points file of earlier runs.
InitLedger ==
    /\ profileStore = (1 :> [gender |-> "M", worldid |-> 11]
                    @@ 2 :> [gender |-> "F", worldid |-> 12]
                    @@ 3 :> [gender |-> "F", worldid |-> NoWorldId])
    /\ urlStore = (101 :> [gender |-> NoGender, worldid |-> 13])
    /\ pointsFile \in Ledgers
    /\ diskWritable = TRUE
    /\ userLocations = <<>>
    /\ selectedUsers = [male |-> NULL, female |-> NULL, selectedAt |-> 0]
    /\ now = 0
    /\ runs = <<>>
    /\ reqs = EmptyBag
    /\ wsClients = <<>>
    /\ readyState = [ws \in Sockets |-> "CONNECTING"]
    /\ sendThrows = {}
    /\ arrived = <<>>
    /\ profilesReadable = TRUE
    /\ server = Started
    /\ targetUpdates = <<>>
    /\ nRuns = 0
    /\ nGps = 0
    /\ nSetGender = 0
    /\ out = NoOutput

\* The reads of the points file.
NextLedger ==
    \/ Leaderboard
    \/ Points

SpecLedger == InitLedger /\ [][NextLedger]_vars

\* Every operation, a few steps deep, on a sample of the inputs: a male, a
\* female and an unknown caller, the two participants with a World ID as
\* targets, two fixes.
AllBudget == nRuns + nGps + nSetGender < MaxAllSteps
AllScan == \E worldid \in {11, 12, 19},
              scannedUrl \in {ScannedUrl(TRUE, 1, NULL), ScannedUrl(TRUE, 2, NULL),
                              ScannedUrl(FALSE, NULL, NULL)} :
              ScanBegin(worldid, scannedUrl)
AllTarget == \E worldid \in {11, 19} : TargetBegin(worldid)
AllProfile == \E key \in {1, 9}, gender \in {"F", "X"} :
                  SetGender(key, gender, NoWorldId)
AllGps == \/ \E userId \in {1, 2}, data \in {f \in Fixes : f.longitude < 100} :
                GpsUpdate(1, userId, data)
          \/ GpsUpdateInvalid(1)
AllPoints == \E userId \in {1, 9} : GetPoints(userId)
AllProximity == \E targetUserId \in {2, 3} : VerifyProximity(1, targetUserId)

\* The setTimeout of the API's index module: the automatic start.
AutoStart ==
    /\ server.autoStart
    /\ \E throws \in BOOLEAN :
          LET started == initializeWebSocketServer(throws)
          IN /\ server' = [started.server EXCEPT !.autoStart = FALSE]
             /\ out' = IF started.thrown
                       THEN Logged("error", "SERVER",
                                   "Failed to auto-initialize WebSocket server", NULL)
                       ELSE IF server.wss # NULL
                       THEN Logged("warn", "SERVER",
                                   "WebSocket server already initialized", NULL)
                       ELSE Logged("info", "SERVER",
                                   "WebSocket server automatically initialized on port 3002",
                                   NULL)
    /\ UNCHANGED <<profileStore, urlStore, pointsFile, diskWritable, userLocations,
                   selectedUsers, now, runs, reqs, wsClients, readyState,
                   targetUpdates, nRuns, nGps, nSetGender, sendThrows, arrived,
                   profilesReadable>>

\* POST /etgl/ws/start
WsStart ==
    /\ \E throws \in BOOLEAN :
          IF server.wss # NULL
          THEN /\ server' = server
               /\ out' = [op |-> "ws/start", status |-> 200,
                          message |-> "WebSocket server already running (auto-initialized)",
                          connectedClients |-> Len(wsClients)]
          ELSE LET started == initializeWebSocketServer(throws)
               IN /\ server' = started.server
                  /\ out' = IF started.thrown
                            THEN [op |-> "ws/start", status |-> 500,
                                  error |-> "Failed to start WebSocket server"]
                            ELSE [op |-> "ws/start", status |-> 200,
                                  message |-> "WebSocket server manually started"]
    /\ UNCHANGED <<profileStore, urlStore, pointsFile, diskWritable, userLocations,
                   selectedUsers, now, runs, reqs, wsClients, readyState,
                   targetUpdates, nRuns, nGps, nSetGender, sendThrows, arrived,
                   profilesReadable>>

\* The setTimeout(selectRandomUsers, 5000) of a start: the initial run.
InitialSelection ==
    /\ server.initialSelections > 0
    /\ server' = [server EXCEPT !.initialSelections = @ - 1]
    /\ SelectStart
    /\ out' = NoOutput
    /\ UNCHANGED <<profileStore, urlStore, pointsFile, diskWritable, userLocations,
                   selectedUsers, now, reqs, wsClients, readyState, targetUpdates,
                   nGps, nSetGender, sendThrows, arrived, profilesReadable>>

\* The process from the load of the module: the automatic start and manual
\* starts in any order and number, connections once a server listens, and
\* the timers a start has set.
InitBoot ==
    /\ profileStore = (1 :> [gender |-> "M", worldid |-> 11]
                    @@ 2 :> [gender |-> "F", worldid |-> 12]
                    @@ 3 :> [gender |-> "F", worldid |-> NoWorldId])
    /\ urlStore = (101 :> [gender |-> NoGender, worldid |-> 13])
    /\ pointsFile = <<>>
    /\ diskWritable = TRUE
    /\ userLocations = <<>>
    /\ selectedUsers = [male |-> NULL, female |-> NULL, selectedAt |-> 0]
    /\ now = 0
    /\ runs = <<>>
    /\ reqs = EmptyBag
    /\ wsClients = <<>>
    /\ readyState = [ws \in Sockets |-> "CONNECTING"]
    /\ sendThrows = {}
    /\ arrived = <<>>
    /\ profilesReadable = TRUE
    /\ server = AtLoad
    /\ targetUpdates = <<>>
    /\ nRuns = 0
    /\ nGps = 0
    /\ nSetGender = 0
    /\ out = NoOutput

NextBoot ==
    \/ AutoStart
    \/ WsStart
    \/ InitialSelection
    \/ server.cleanupTimers > 0 /\ RemoveInactiveClients
    \/ server.selectionTimers > 0 /\ nRuns < MaxRuns /\ SelectTimer
    \/ SelectFinish
    \/ server.wss # NULL /\ Len(wsClients) < MaxClients /\ Connect
    \/ Disconnect
    \/ Status

SpecBoot == InitBoot /\ [][NextBoot]_vars

\* fs.writeFileSync of ./etgl-points.json starts to throw (disk full,
\* permissions, read-only file system) and stops throwing.
WriteFails ==
    /\ diskWritable
    /\ diskWritable' = FALSE
    /\ out' = NoOutput
    /\ UNCHANGED <<profileStore, urlStore, pointsFile, userLocations,
                   selectedUsers, now, runs, reqs, wsClients, readyState,
                   targetUpdates, nRuns, nGps, nSetGender, sendThrows, arrived,
                   profilesReadable, server>>
WriteRecovers ==
    /\ ~diskWritable
    /\ diskWritable' = TRUE
    /\ out' = NoOutput
    /\ UNCHANGED <<profileStore, urlStore, pointsFile, userLocations,
                   selectedUsers, now, runs, reqs, wsClients, readyState,
                   targetUpdates, nRuns, nGps, nSetGender, sendThrows, arrived,
                   profilesReadable, server>>

\* Scans of the three participants' tokens by the male and the female
\* caller, against selection runs and a points file whose writes come and go.
DiskScan == \E worldid \in {11, 12},
               scannedUrl \in {ScannedUrl(TRUE, k, NULL) : k \in Users} :
               ScanBegin(worldid, scannedUrl)
NextDisk ==
    \/ nRuns < MaxRuns /\ SelectTimer
    \/ SelectFinish
    \/ BagCardinality(reqs) < MaxInflight /\ DiskScan
    \/ ScanStep
    \/ WriteFails
    \/ WriteRecovers
    \/ Points

SpecDisk == Init /\ [][NextDisk]_vars

\* Selection requests between participants with no fix, fixes at one place,
\* exactly 100 metres apart and 101 metres apart, over two connections.
SelectionGps == \E userId \in {1, 2}, data \in {f \in Fixes : f.longitude < 1000} :
                   GpsUpdate(1, userId, data)
SelectionRequest == \E ws \in Sockets, selectedUserId \in {1, 2, 3} :
                       UserSelection(ws, 1, selectedUserId)
NextSelection ==
    \/ Len(wsClients) < MaxConcurrent /\ Connect
    \/ Disconnect
    \/ \E ws \in Sockets : SendBreaks(ws)
    \/ nGps < MaxGpsUpdates /\ SelectionGps
    \/ SelectionRequest
    \/ nRuns < MaxInflight /\ SelectTimer
    \/ SelectFinish

SpecSelection == Init /\ [][NextSelection]_vars

\* Scans against stored locations that come and change: no fix, fixes at
\* one place, fixes 1112 metres apart.
ScanLocationGps == \E userId \in {1, 2},
                      data \in {f \in Fixes : f.latitude = 0 /\ f.longitude # 101} :
                      GpsUpdate(1, userId, data)
NextScanLocations ==
    \/ Len(wsClients) < MaxClients /\ Connect
    \/ nGps < MaxGpsUpdates /\ ScanLocationGps
    \/ TargetUpdate
    \/ nRuns < MaxRuns /\ SelectTimer
    \/ SelectFinish
    \/ BagCardinality(reqs) < MaxInflight /\ AllScan
    \/ ScanStep

SpecScanLocations == Init /\ [][NextScanLocations]_vars

NextAll ==
    \/ AllBudget /\ (SelectTimer \/ SelectNew)
    \/ SelectFinish
    \/ AllBudget /\ AllProfile
    \/ AllBudget /\ Len(wsClients) < MaxClients /\ Connect
    \/ Disconnect
    \/ AllBudget /\ AllGps
    \/ TargetUpdate
    \/ BagCardinality(reqs) < MaxInflight /\ (AllScan \/ AllTarget)
    \/ ScanStep
    \/ TargetStep
    \/ AllPoints
    \/ Leaderboard
    \/ AllProximity
    \/ Locations
    \/ Status
    \/ Selected

SpecAll == Init /\ [][NextAll]_vars

\* ============================================================ properties

\* The points record of a participant in a points file, read off the file.
HasRecord(points, userId) == \E i \in 1..Len(points) : points[i].userId = userId
RecordOf(points, userId) ==
    points[CHOOSE i \in 1..Len(points) : points[i].userId = userId]
RedeemedOf(points, userId) ==
    IF HasRecord(points, userId) THEN RecordOf(points, userId).scannedTargets ELSE <<>>
TotalOf(points, userId) ==
    IF HasRecord(points, userId) THEN RecordOf(points, userId).points ELSE 0
Occurrences(seq, x) == Cardinality({i \in 1..Len(seq) : seq[i] = x})

\* The kinds of scan response.
IsScan(o) == o.op = "scan-nfc"
Granted(o) == IsScan(o) /\ o.status = 200
DuplicateRedemption(o) == IsScan(o) /\ o.status = 400 /\ "reason" \in DOMAIN o
WrongTarget(o) == IsScan(o) /\ o.status = 400 /\ "expectedTargetId" \in DOMAIN o
NoTargetSelected(o) == IsScan(o) /\ o.status = 404 /\ "oppositeGender" \in DOMAIN o

\* The step in which the scan handler suspended as r reads the selection
\* and answers.
ScanAnswers(r) ==
    /\ r \in Suspended
    /\ r.op = "scan-nfc"
    /\ r.stage = "selection"
    /\ reqs' = Resume(r)
\* The slot of the selection the scan of r is compared with.
ExpectedTarget(r) == SelectedOf(OppositeGender(r.userGender))

C2_RedeemedOnce ==
    /\ \A i \in 1..Len(pointsFile) :
          \A t \in SeqToSet(pointsFile[i].scannedTargets) :
             Occurrences(pointsFile[i].scannedTargets, t) = 1
    /\ \A i, j \in 1..Len(pointsFile) :
          pointsFile[i].userId = pointsFile[j].userId => i = j

\* A participant has redeemed two targets, and a repeated scan of one of them
\* was just answered.
C2_Witness ==
    /\ \E i \in 1..Len(pointsFile) : Len(pointsFile[i].scannedTargets) >= 2
    /\ DuplicateRedemption(out)

Scanners(points) == {points[i].userId : i \in 1..Len(points)}

\* C4: whenever a redeemed set changes, the step is the granted answer of a
\* scan, exactly one identifier is added to the scanner's set and to no
\* other, and that identifier is the one the selection holds, in that step,
\* in the slot opposite to the category the scan resolved for the scanner.
C4_GrantOnlyForSelectedTarget ==
    [][(\E u \in Scanners(pointsFile') :
            RedeemedOf(pointsFile', u) # RedeemedOf(pointsFile, u))
       => \E r \in Suspended :
             /\ ScanAnswers(r)
             /\ Granted(out')
             /\ out'.req = r
             /\ r.scannedTargetId # NULL
             /\ r.scannedTargetId = (IF r.userGender = "M" THEN selectedUsers.female
                                      ELSE selectedUsers.male)
             /\ selectedUsers' = selectedUsers
             /\ RedeemedOf(pointsFile', r.userId)
                   = Append(RedeemedOf(pointsFile, r.userId), r.scannedTargetId)
             /\ \A u \in Scanners(pointsFile') \ {r.userId} :
                   RedeemedOf(pointsFile', u) = RedeemedOf(pointsFile, u)]_vars

\* A scan was granted after the selection had been replaced while the scan
\* was possible: the second run's female target is in a redeemed set.
C4_Witness ==
    /\ Granted(out)
    /\ nRuns = 2
    /\ runs = <<>>
    /\ out.req.scannedTargetId = ExpectedTarget(out.req)

\* The slot of the selection opposite to a category, read off the record.
OppositeSlot(userGender) ==
    IF userGender = "M" THEN selectedUsers.female ELSE selectedUsers.male

\* C5: the answer of a scan is typed by its cause.  A null opposite slot
\* gives "no target selected" whatever was scanned; a non-null slot other
\* than the scanned id gives "wrong target" naming the selected id as the
\* expected target; the selected id already redeemed gives "duplicate
\* redemption"; and each of these answers has that cause only.
C5_RejectionTypedByCause ==
    [][\A r \in Suspended : ScanAnswers(r) =>
          LET slot == OppositeSlot(r.userGender)
              redeemed == Includes(RedeemedOf(pointsFile, r.userId), r.scannedTargetId)
          IN /\ NoTargetSelected(out') <=> slot = NULL
             /\ WrongTarget(out') <=> (slot # NULL /\ r.scannedTargetId # slot)
             /\ WrongTarget(out') => /\ out'.expectedTargetId = slot
                                      /\ out'.scannedTargetId = r.scannedTargetId
             /\ DuplicateRedemption(out') <=> (slot # NULL /\ r.scannedTargetId = slot
                                                  /\ redeemed)
             /\ NoTargetSelected(out') =>
                   out'.error = (IF r.userGender = "M"
                                 THEN "No female target currently selected"
                                 ELSE "No male target currently selected")]_vars

\* The male participant scanned the female participant who is not selected:
\* the rejection names the selected one.
C5_Witness ==
    /\ WrongTarget(out)
    /\ out.req.userGender = "M"
    /\ out.expectedTargetId = selectedUsers.female
    /\ out.scannedTargetId \in {2, 3} \ {selectedUsers.female}

\* The answers of the read operations, and of a scan that is not granted.
IsRead(o) ==
    o.op \in {"ws/status", "ws/locations", "ws/selected", "verify-proximity",
              "target", "points", "leaderboard"}
RejectedScan(o) == IsScan(o) /\ o.status # 200

\* C6: the points file changes only in the step that answers a scan with a
\* grant, and the location store only in the step that accepts a gps_update;
\* a step that answers a scan with a rejection, or answers a read (status,
\* locations, selection, proximity, target, points, leaderboard), leaves the
\* points file, the location store and the selection as they were.
C6_Frame ==
    [][/\ pointsFile' # pointsFile
          => Granted(out') /\ \E r \in Suspended : ScanAnswers(r) /\ out'.req = r
       /\ userLocations' # userLocations
          => /\ nGps' = nGps + 1
             /\ out'.op = "ws"
             /\ \E i \in 1..Len(out'.sends) :
                   /\ out'.sends[i].message.type = "gps_update"
                   /\ "userId" \in DOMAIN out'.sends[i].message
                   /\ userLocations'[out'.sends[i].message.userId]
                         = out'.sends[i].message.data
       /\ (RejectedScan(out') \/ IsRead(out'))
          => /\ pointsFile' = pointsFile
             /\ userLocations' = userLocations
             /\ selectedUsers' = selectedUsers]_vars

\* The points of a participant without a record were just read, while the
\* ledger, the location store and the selection all hold something.
C6_Witness ==
    /\ out.op = "points"
    /\ ~HasRecord(pointsFile, out.userId)
    /\ pointsFile # <<>>
    /\ userLocations # <<>>
    /\ selectedUsers.female # NULL

Located(userId) == userId \in DOMAIN userLocations

\* C8: a proximity check that names a participant without a stored location
\* is answered NotFound, unverified and without a distance; a target lookup
\* whose selected target has no stored location is answered NotFound without
\* coordinates; an answer with a distance or with coordinates is about
\* participants that have a location.
C8_NoLocationIsNotFound ==
    /\ out.op = "verify-proximity"
       => /\ (~Located(out.userId) \/ ~Located(out.targetUserId))
             => /\ out.status = 404
                /\ ~out.verified
                /\ DOMAIN out \cap {"distance", "userLocation", "targetLocation"} = {}
          /\ "distance" \in DOMAIN out
             => Located(out.userId) /\ Located(out.targetUserId)
    /\ (out.op = "target" /\ "req" \in DOMAIN out)
       => LET slot == OppositeSlot(out.req.userGender)
          IN /\ (slot # NULL /\ ~Located(slot))
                => /\ out.status = 404
                   /\ out.targetUserId = slot
                   /\ DOMAIN out \cap {"coordinates", "lastUpdated"} = {}
             /\ "coordinates" \in DOMAIN out => Located(out.targetUserId)

\* A proximity check of a participant that has a location against one that
\* has none was just answered.
C8_Witness ==
    /\ out.op = "verify-proximity"
    /\ Located(out.userId)
    /\ ~Located(out.targetUserId)

\* On the metre grid the distance of two fixes is at most 100 exactly when the
\* squares of the differences sum to at most 100 squared.
Within100(c1, c2) ==
    (c2.latitude - c1.latitude) * (c2.latitude - c1.latitude)
    + (c2.longitude - c1.longitude) * (c2.longitude - c1.longitude) <= 100 * 100

\* C9: a proximity check of two participants that both have a stored
\* location is answered with threshold 100 and verified exactly when the
\* stored fixes are at most 100 metres apart, 100 included; the fixes (0, 0)
\* and (0, 1112 m east, 0.01 degree) are not verified.
C9_VerifiedWithin100 ==
    (out.op = "verify-proximity" /\ Located(out.userId) /\ Located(out.targetUserId))
    => LET c1 == userLocations[out.userId].coordinates
           c2 == userLocations[out.targetUserId].coordinates
       IN /\ out.status = 200
          /\ out.threshold = 100
          /\ out.verified <=> Within100(c1, c2)
          /\ (c1.latitude = 0 /\ c1.longitude = 0 /\ c2.latitude = 0
                /\ c2.longitude = 1112)
             => ~out.verified /\ out.distance > 1000

\* Two participants exactly 100 metres apart were just verified.
C9_Witness ==
    /\ out.op = "verify-proximity"
    /\ out.status = 200
    /\ out.userId # out.targetUserId
    /\ out.verified
    /\ LET c1 == out.userLocation
           c2 == out.targetLocation
       IN (c2.latitude - c1.latitude) * (c2.latitude - c1.latitude)
          + (c2.longitude - c1.longitude) * (c2.longitude - c1.longitude) = 100 * 100

\* The step in which the target handler suspended as r reads the selection
\* and answers.
TargetAnswers(r) ==
    /\ r \in Suspended
    /\ r.op = "target"
    /\ r.stage = "selection"
    /\ reqs' = Resume(r)

\* C10: a target lookup answers 200 or 404 NotFound.  It answers 200 only to
\* a requester resolved to a profile with a category, and exactly when the
\* slot opposite to that category is non-null and holds a participant with
\* a stored location; the answer then carries that participant's id and the
\* coordinates and time that the location store holds for it in that step.
C10_TargetLookupChain ==
    [][/\ out'.op = "target"
          => /\ out'.status \in {200, 404}
             /\ out'.status = 200
                => /\ "req" \in DOMAIN out'
                   /\ out'.req.userId # NULL
                   /\ out'.req.userGender \in Genders
                   /\ \/ /\ out'.req.userId \in DOMAIN profileStore
                         /\ profileStore[out'.req.userId].worldid = out'.req.worldid
                      \/ /\ out'.req.userId \in DOMAIN urlStore
                         /\ urlStore[out'.req.userId].worldid = out'.req.worldid
       /\ \A r \in Suspended : TargetAnswers(r) =>
             LET slot == OppositeSlot(r.userGender)
             IN /\ out'.op = "target"
                /\ out'.req = r
                /\ out'.status = 200 <=> (slot # NULL /\ Located(slot))
                /\ out'.status = 200
                   => /\ out'.targetUserId = slot
                      /\ out'.coordinates = userLocations'[slot].coordinates
                      /\ out'.lastUpdated = userLocations'[slot].lastUpdated
                      /\ userLocations' = userLocations]_vars

\* A target lookup was just answered with the fix of a target whose location
\* had been replaced by a later update.
C10_Witness ==
    /\ out.op = "target"
    /\ out.status = 200
    /\ nGps = 2
    /\ DOMAIN userLocations = {out.targetUserId}
    /\ out.coordinates = userLocations[out.targetUserId].coordinates

\* The step in which a selection run publishes, and the profiles it read.
RunPublishes == runs # <<>> /\ runs' = Tail(runs)
Members(profiles, gender) == {k \in DOMAIN profiles : profiles[k].gender = gender}

\* C11: when a selection run publishes, each slot of the published record
\* is null exactly when the profiles the run read hold no member of the
\* slot's category, and otherwise holds one member of that category in
\* those profiles.
C11_SlotsFromSnapshot ==
    [][RunPublishes =>
          LET snapshot == Head(runs).profiles
          IN /\ selectedUsers'.male = NULL <=> Members(snapshot, "M") = {}
             /\ selectedUsers'.male # NULL
                => selectedUsers'.male \in Members(snapshot, "M")
             /\ selectedUsers'.female = NULL <=> Members(snapshot, "F") = {}
             /\ selectedUsers'.female # NULL
                => selectedUsers'.female \in Members(snapshot, "F")]_vars

\* A run published after the only male profile had been changed to female:
\* the male slot is null, the female slot is not.
C11_Witness ==
    /\ selectedUsers.selectedAt > 0
    /\ selectedUsers.male = NULL
    /\ selectedUsers.female # NULL
    /\ out.op = "ws"

SelectionFrames(o) ==
    IF o.op = "ws"
    THEN {o.sends[i].message.data :
             i \in {j \in 1..Len(o.sends) : o.sends[j].message.type = "selected_users"}}
    ELSE {}

\* C13: the selection record changes only in the step in which one run
\* publishes, which writes both slots and a new selectedAt together; and
\* every reader (status, selection read, manual trigger, target lookup, scan,
\* the push to a new connection, the selection broadcast) is handed the
\* slots and the timestamp of the one record held at its step.
C13_SelectionReplacedWhole ==
    [][/\ selectedUsers' # selectedUsers
          => /\ RunPublishes
             /\ selectedUsers'.selectedAt = now'
             /\ selectedUsers'.selectedAt > selectedUsers.selectedAt
             /\ selectedUsers'.male \in Members(Head(runs).profiles, "M") \cup {NULL}
             /\ selectedUsers'.female \in Members(Head(runs).profiles, "F") \cup {NULL}
       /\ RunPublishes => selectedUsers'.selectedAt = now' /\ now' > now
       /\ out'.op \in {"ws/status", "ws/selected", "ws/select-new"}
          => out'.selectedUsers = selectedUsers'
       /\ \A data \in SelectionFrames(out') : data = selectedUsers'
       /\ (out'.op = "target" /\ out'.status = 200)
          => /\ out'.targetUserId = (IF out'.req.userGender = "M"
                                     THEN selectedUsers'.female ELSE selectedUsers'.male)
             /\ out'.selectedAt = selectedUsers'.selectedAt
       /\ WrongTarget(out')
          => out'.expectedTargetId = (IF out'.req.userGender = "M"
                                     THEN selectedUsers'.female ELSE selectedUsers'.male)]_vars

\* The status was just read after a second run had published: it shows the
\* second record.
C13_Witness ==
    /\ out.op = "ws/status"
    /\ out.selectedUsers.selectedAt = 2
    /\ out.selectedUsers = selectedUsers

\* C14: the response of a manual re-selection carries the selection that the
\* run started by that request publishes.  In SpecTurns the run published
\* right after a ws/select-new response is the one that request started.
C14_ResponseHasNewSelection ==
    [][(out.op = "ws/select-new" /\ RunPublishes)
          => out.selectedUsers = selectedUsers']_vars

\* The step registers a connection; the socket it registers.
Registers == Len(wsClients') = Len(wsClients) + 1
Registered == wsClients'[Len(wsClients')].ws

\* C15: the step that registers a connection sends it exactly two frames,
\* first the selection and then the set of all stored locations, both as they
\* are in the state at registration, which the step leaves unchanged; and no
\* step sends a frame to a socket that has not been registered, so that these
\* two are the first frames the connection gets.
C15_RegistrationPushes ==
    [][/\ Registers
          => /\ ClientIndex(wsClients, Registered) = 0
             /\ out'.op = "ws"
             /\ Len(out'.sends) = 2
             /\ out'.sends[1] = [to |-> Registered,
                                 message |-> [type |-> "selected_users",
                                              data |-> selectedUsers]]
             /\ out'.sends[2] = [to |-> Registered,
                                 message |-> [type |-> "gps_update",
                                              data |-> {userLocations[u] :
                                                          u \in DOMAIN userLocations}]]
             /\ selectedUsers' = selectedUsers
             /\ userLocations' = userLocations
       /\ (out'.op = "ws" /\ ~Registers)
          => \A i \in 1..Len(out'.sends) :
                /\ readyState[out'.sends[i].to] # "CONNECTING"
                /\ ClientIndex(wsClients, out'.sends[i].to) > 0]_vars

\* A second connection was just registered after a selection was published
\* and a location stored: it was sent that selection, then that location.
C15_Witness ==
    /\ out.op = "ws"
    /\ Len(out.sends) = 2
    /\ out.sends[1].message.type = "selected_users"
    /\ out.sends[2].message.type = "gps_update"
    /\ out.sends[1].to = 2
    /\ out.sends[2].to = 2
    /\ out.sends[1].message.data.selectedAt > 0
    /\ "userId" \notin DOMAIN out.sends[2].message
    /\ out.sends[2].message.data # {}

\* How many frames of a type a step's output holds for a socket, and the
\* messages of that type in it.
Delivered(o, ws, type) ==
    IF o.op = "ws"
    THEN Cardinality({i \in 1..Len(o.sends) :
                         o.sends[i].to = ws /\ o.sends[i].message.type = type})
    ELSE 0
MessagesOf(o, type) ==
    IF o.op = "ws"
    THEN {o.sends[i].message :
             i \in {j \in 1..Len(o.sends) : o.sends[j].message.type = type}}
    ELSE {}
\* The connections a fan-out reaches: registered, open, send() not throwing.
Live(ws) ==
    /\ ClientIndex(wsClients, ws) > 0
    /\ readyState[ws] = "OPEN"
    /\ ws \notin sendThrows
\* The step stores a location update; the step publishes a selection: the
\* two callers of the fan-out that go on after it.
StoresLocation == nGps' = nGps + 1

C17_DeadChannelsRemoved ==
    [][(StoresLocation \/ RunPublishes)
          => \A ws \in Sockets :
                (ClientIndex(wsClients, ws) > 0 /\ ~Live(ws))
                => ClientIndex(wsClients', ws) = 0]_vars

\* The participants with an accepted location update, and the fix of the
\* update that arrived last for a participant.
ArrivedUsers == {arrived[i].userId : i \in 1..Len(arrived)}
LastArrived(u) ==
    LET of == {i \in 1..Len(arrived) : arrived[i].userId = u}
    IN arrived[CHOOSE i \in of : \A j \in of : j <= i].data
\* A set of stored locations holds, for each participant with an accepted
\* update and for no other, the fix that arrived last.
HoldsLastArrived(locations) ==
    /\ {l.userId : l \in locations} = ArrivedUsers
    /\ Cardinality(locations) = Cardinality(ArrivedUsers)
    /\ \A l \in locations : l.coordinates = LastArrived(l.userId)
\* The output is the pair of frames sent at a registration.
IsRegistrationPush(o) ==
    /\ o.op = "ws"
    /\ Len(o.sends) = 2
    /\ o.sends[1].message.type = "selected_users"
    /\ o.sends[2].message.type = "gps_update"
    /\ "userId" \notin DOMAIN o.sends[2].message

\* C18: the location store holds, for each participant with an accepted
\* update, the fix of the update that arrived last, field for field, whatever
\* the capture timestamps; and the location listing, the snapshot pushed at
\* registration and the lookups of the proximity check return those fixes.
C18_LastArrivedFixIsRead ==
    /\ DOMAIN userLocations = ArrivedUsers
    /\ \A u \in ArrivedUsers :
          /\ userLocations[u].userId = u
          /\ userLocations[u].coordinates = LastArrived(u)
    /\ out.op = "ws/locations"
          => HoldsLastArrived(out.locations) /\ out.count = Cardinality(ArrivedUsers)
    /\ IsRegistrationPush(out) => HoldsLastArrived(out.sends[2].message.data)
    /\ out.op = "verify-proximity"
          => /\ out.status = 200 <=> {out.userId, out.targetUserId} \subseteq ArrivedUsers
             /\ out.status = 200
                => /\ out.userLocation = LastArrived(out.userId)
                   /\ out.targetLocation = LastArrived(out.targetUserId)

\* Participant 1 sent a fix captured at 2 and then one captured at 1; the
\* listing was just read and holds the one captured at 1.
C18_Witness ==
    /\ Len(arrived) = 2
    /\ arrived[1].userId = 1
    /\ arrived[2].userId = 1
    /\ arrived[1].data.timestamp = 2
    /\ arrived[2].data.timestamp = 1
    /\ out.op = "ws/locations"
    /\ \E l \in out.locations : l.userId = 1 /\ l.coordinates.timestamp = 1

\* The log entries of an inbound message that could not be parsed, had an
\* unknown type, or was a location update without userId or data.
DroppedMessageLogs ==
    {"Error parsing WebSocket message", "Unknown message type received",
     "Invalid GPS update message - missing userId or data"}

C20_LeaderboardSortedAndComplete ==
    out.op = "leaderboard"
    => /\ out.status = 200
       /\ Len(out.leaderboard) = Len(pointsFile)
       /\ out.totalUsers = Len(pointsFile)
       /\ \A i \in 1..Len(pointsFile) :
             Cardinality({j \in 1..Len(out.leaderboard) :
                             /\ out.leaderboard[j].userId = pointsFile[i].userId
                             /\ out.leaderboard[j].points = pointsFile[i].points
                             /\ out.leaderboard[j].scannedTargetsCount
                                   = Len(pointsFile[i].scannedTargets)
                             /\ out.leaderboard[j].lastUpdated
                                   = pointsFile[i].lastUpdated}) = 1
       /\ \A i, j \in 1..Len(out.leaderboard) :
             i < j => out.leaderboard[i].points >= out.leaderboard[j].points

\* The points file holds totals 5, 10, 3 in this order and the leaderboard
\* just read holds 10, 5, 3.
C20_Witness ==
    /\ out.op = "leaderboard"
    /\ Len(pointsFile) = 3
    /\ pointsFile[1].points = 5
    /\ pointsFile[2].points = 10
    /\ pointsFile[3].points = 3
    /\ out.leaderboard[1].points = 10
    /\ out.leaderboard[2].points = 5
    /\ out.leaderboard[3].points = 3
    /\ out.leaderboard[1].userId = pointsFile[2].userId

\* C21: a selection run in flight comes to its end, whatever profiles it read
\* and whatever the connections did to its broadcast; every firing of a
\* timer or of the manual trigger starts a run; and both triggers can fire
\* in every state.
C21_SchedulerCycles ==
    /\ (runs # <<>>) ~> (runs = <<>>)
    /\ [][nRuns' = nRuns + 1 => Len(runs') = Len(runs) + 1]_vars
    /\ [](ENABLED SelectTimer /\ ENABLED SelectNew)

\* A run that could not read the profiles has published the empty selection
\* over a connection whose send throws, and the next run has started.
C21_Witness ==
    /\ selectedUsers.selectedAt = 1
    /\ selectedUsers.male = NULL
    /\ selectedUsers.female = NULL
    /\ sendThrows # {}
    /\ nRuns = 2
    /\ Len(runs) = 1

\* The socket has an entry in the registry.
IsRegistered(clients, ws) == ClientIndex(clients, ws) > 0

\* C22: a registered connection that has closed can be removed by its close
\* event and is removed by the sweep if the event has not done it: it does
\* not stay registered for ever; the sweep leaves exactly the open
\* connections, in their order; an open connection leaves the registry only
\* at its own error event; a removed connection is not registered again, and
\* frames go to registered connections only.
C22_NonOpenRemoved ==
    /\ \A ws \in Sockets :
          (IsRegistered(wsClients, ws) /\ readyState[ws] # "OPEN")
             ~> ~IsRegistered(wsClients, ws)
    /\ [](\A ws \in Sockets :
             (IsRegistered(wsClients, ws) /\ readyState[ws] # "OPEN")
                => ENABLED OnClose(ws))
    /\ [][/\ (out'.op = "log" /\ out'.message = "Cleanup completed")
              => wsClients' = SelectSeq(wsClients,
                                 LAMBDA c : readyState[c.ws] = "OPEN")
          /\ \A ws \in Sockets :
                (IsRegistered(wsClients, ws) /\ ~IsRegistered(wsClients', ws)
                    /\ readyState[ws] = "OPEN")
                => /\ out'.op = "log"
                   /\ out'.message = "WebSocket connection error"
                   /\ out'.clientId = ws
          /\ \A ws \in Sockets :
                (~IsRegistered(wsClients, ws) /\ IsRegistered(wsClients', ws))
                => readyState[ws] = "CONNECTING"
          /\ out'.op = "ws"
              => \A i \in 1..Len(out'.sends) :
                    IsRegistered(wsClients', out'.sends[i].to)]_vars

\* The sweep just removed a closed connection and left an open one, and a
\* selection run is about to broadcast.
C22_Witness ==
    /\ out.op = "log"
    /\ out.message = "Cleanup completed"
    /\ \E ws \in Sockets : readyState[ws] = "CLOSED" /\ ~IsRegistered(wsClients, ws)
    /\ \E ws \in Sockets : readyState[ws] = "OPEN" /\ IsRegistered(wsClients, ws)
    /\ runs # <<>>

\* C23: the answer of a scan and its effect on the points file are fixed by
\* the request, the selection and the points file alone, whatever the
\* location store holds: no target selected, wrong target, duplicate or grant
\* follow from the selected slot and the scanner's redeemed set, the grant
\* adds the target and one point, the others write nothing, and no scan step
\* touches the location store.
C23_ScanIgnoresLocations ==
    [][/\ \A r \in Suspended : ScanAnswers(r) =>
             LET slot == IF r.userGender = "M" THEN selectedUsers.female
                         ELSE selectedUsers.male
                 before == RedeemedOf(pointsFile, r.userId)
             IN /\ slot = NULL
                   => NoTargetSelected(out') /\ pointsFile' = pointsFile
                /\ (slot # NULL /\ r.scannedTargetId # slot)
                   => WrongTarget(out') /\ pointsFile' = pointsFile
                /\ (slot # NULL /\ r.scannedTargetId = slot
                      /\ Includes(before, r.scannedTargetId))
                   => DuplicateRedemption(out') /\ pointsFile' = pointsFile
                /\ (slot # NULL /\ r.scannedTargetId = slot
                      /\ ~Includes(before, r.scannedTargetId))
                   => /\ Granted(out')
                      /\ RedeemedOf(pointsFile', r.userId)
                            = Append(before, r.scannedTargetId)
                      /\ TotalOf(pointsFile', r.userId)
                            = TotalOf(pointsFile, r.userId) + 1
       /\ IsScan(out') => userLocations' = userLocations]_vars

\* A scan was just granted while the scanner and the target have stored
\* fixes more than 100 metres apart.
C23_Witness ==
    /\ Granted(out)
    /\ Located(out.req.userId)
    /\ Located(out.req.scannedTargetId)
    /\ ~Within100(userLocations[out.req.userId].coordinates,
                  userLocations[out.req.scannedTargetId].coordinates)

\* A scan was just granted while neither has a stored fix.
C23_WitnessNoFix ==
    /\ Granted(out)
    /\ ~Located(out.req.userId)
    /\ ~Located(out.req.scannedTargetId)

\* The positions, in a step's output, of the frames of one type, and of the
\* target updates of one category.
FramesOfType(o, type) ==
    IF o.op = "ws"
    THEN {i \in 1..Len(o.sends) : o.sends[i].message.type = type}
    ELSE {}
TargetFrames(o, gender) ==
    {i \in FramesOfType(o, "target_update") : o.sends[i].message.data.gender = gender}

\* C24: in the step in which a run publishes, every selection frame comes
\* before every target update; for a category whose selected participant has
\* a stored location at that step, each live connection gets exactly one
\* target update of that category, naming that participant and carrying the
\* stored location record; for a null slot or a participant without a stored
\* location no target update of that category is sent; the male update comes
\* before the female one.
C24_TargetUpdatesFollowSelection ==
    [][RunPublishes =>
          /\ \A i \in FramesOfType(out', "selected_users"),
                j \in FramesOfType(out', "target_update") : i < j
          /\ \A i \in TargetFrames(out', "M"), j \in TargetFrames(out', "F") : i < j
          /\ FramesOfType(out', "target_update")
                = TargetFrames(out', "M") \cup TargetFrames(out', "F")
          /\ \A gender \in {"M", "F"} :
                LET selected == IF gender = "M" THEN selectedUsers'.male
                                ELSE selectedUsers'.female
                IN IF selected # NULL /\ selected \in DOMAIN userLocations
                   THEN /\ \A ws \in Sockets :
                             Cardinality({i \in TargetFrames(out', gender) :
                                             out'.sends[i].to = ws})
                               = IF Live(ws) THEN 1 ELSE 0
                        /\ \A i \in TargetFrames(out', gender) :
                             /\ out'.sends[i].message.userId = selected
                             /\ out'.sends[i].message.data.location
                                   = userLocations[selected]
                   ELSE TargetFrames(out', gender) = {}]_vars

\* A run just published a male and a female participant of whom only the
\* male has a stored location: a selection frame, then one male target
\* update, and nothing for the female.
C24_Witness ==
    /\ out.op = "ws"
    /\ Len(out.sends) = 2
    /\ out.sends[1].message.type = "selected_users"
    /\ out.sends[1].message.data = selectedUsers
    /\ out.sends[2].message.type = "target_update"
    /\ out.sends[2].message.data.gender = "M"
    /\ selectedUsers.male \in DOMAIN userLocations
    /\ selectedUsers.female # NULL
    /\ selectedUsers.female \notin DOMAIN userLocations

\* C25: a user_selection request with both identifiers is confirmed, by one
\* frame to every live connection, exactly when the requester and the named
\* participant both have stored locations at most 100 metres apart; when
\* they are farther apart the only frame is a rejection to the requesting
\* connection; when either location is missing no frame is sent; and in all
\* three cases the selection, the location store and the points file stay as
\* they were.
C25_SelectionNeedsProximity ==
    [][\A ws \in Sockets, userId \in {1}, selectedUserId \in {1, 2, 3} :
          UserSelection(ws, userId, selectedUserId) =>
             /\ selectedUsers' = selectedUsers
             /\ userLocations' = userLocations
             /\ pointsFile' = pointsFile
             /\ IF ~Located(userId) \/ ~Located(selectedUserId)
                THEN out'.op # "ws"
                ELSE IF Within100(userLocations[userId].coordinates,
                                  userLocations[selectedUserId].coordinates)
                THEN /\ out'.op = "ws"
                     /\ \A to \in Sockets :
                           Delivered(out', to, "user_selection")
                             = IF Live(to) THEN 1 ELSE 0
                     /\ \A i \in 1..Len(out'.sends) :
                           /\ out'.sends[i].message.type = "user_selection"
                           /\ out'.sends[i].message.userId = userId
                           /\ out'.sends[i].message.data.selectedUserId = selectedUserId
                           /\ out'.sends[i].message.data.confirmed
                ELSE /\ out'.op = "ws"
                     /\ Len(out'.sends) <= 1
                     /\ \A i \in 1..Len(out'.sends) :
                           /\ out'.sends[i].to = ws
                           /\ out'.sends[i].message.type = "user_selection"
                           /\ ~out'.sends[i].message.data.confirmed
                           /\ out'.sends[i].message.data.selectedUserId = selectedUserId]_vars

\* A request between participants 101 metres or more apart was just
\* rejected: one frame, while two connections are live.
C25_Witness ==
    /\ out.op = "ws"
    /\ Len(out.sends) = 1
    /\ out.sends[1].message.type = "user_selection"
    /\ ~out.sends[1].message.data.confirmed
    /\ Cardinality({ws \in Sockets : Live(ws)}) = 2

\* A request between participants exactly 100 metres apart was just
\* confirmed to two live connections.
C25_WitnessConfirmed ==
    /\ out.op = "ws"
    /\ Len(out.sends) = 2
    /\ out.sends[1].message.type = "user_selection"
    /\ out.sends[1].message.data.confirmed
    /\ out.sends[1].message.data.distance = 100

\* C27: no points record ever holds its own participant's identifier in its
\* redeemed set, whatever profile changes come between a nomination and a
\* scan.
C27_NoSelfGrant ==
    \A i \in 1..Len(pointsFile) :
       ~Includes(pointsFile[i].scannedTargets, pointsFile[i].userId)

C28_GrantOnlyIfWritten ==
    Granted(out) =>
       /\ diskWritable
       /\ Includes(RedeemedOf(pointsFile, out.req.userId), out.req.scannedTargetId)

\* C29: a run started while the profile file cannot be read carries an empty
\* population; a run with an empty population publishes a new record with
\* both slots null and a later selectedAt in place of the one it found, and
\* sends it, and no target update, to every live connection.
C29_UnreadableStoreClearsSelection ==
    [][/\ (nRuns' = nRuns + 1 /\ ~profilesReadable)
          => DOMAIN runs'[Len(runs')].profiles = {}
       /\ (RunPublishes /\ DOMAIN Head(runs).profiles = {})
          => /\ selectedUsers'.male = NULL
             /\ selectedUsers'.female = NULL
             /\ selectedUsers'.selectedAt > selectedUsers.selectedAt
             /\ \A ws \in Sockets :
                   Delivered(out', ws, "selected_users") = IF Live(ws) THEN 1 ELSE 0
             /\ \A message \in MessagesOf(out', "selected_users") :
                   message.data = selectedUsers'
             /\ FramesOfType(out', "target_update") = {}]_vars

\* The second run, started while the profile file could not be read, has
\* just published both slots null to the one live connection.
C29_Witness ==
    /\ selectedUsers = [male |-> NULL, female |-> NULL, selectedAt |-> 2]
    /\ runs = <<>>
    /\ out.op = "ws"
    /\ Len(out.sends) = 1
    /\ out.sends[1].message.type = "selected_users"
    /\ out.sends[1].message.data = selectedUsers

\* C30: whatever the order and number of automatic and manual starts, at
\* most one server has been created; before a start has succeeded there is
\* no server and no timer, and from then on wss is that one server and
\* exactly one sweep timer and one selection timer are set.
C30_OneServerOneTimerEach ==
    /\ server.servers <= 1
    /\ server.wss = NULL
       => /\ server.servers = 0
          /\ server.cleanupTimers = 0
          /\ server.selectionTimers = 0
          /\ server.initialSelections = 0
    /\ server.wss # NULL
       => /\ server.servers = 1
          /\ server.cleanupTimers = 1
          /\ server.selectionTimers = 1
          /\ server.initialSelections <= 1

\* The automatic start has just found the server a manual start created.
C30_Witness ==
    /\ out = Logged("warn", "SERVER", "WebSocket server already initialized", NULL)
    /\ ~server.autoStart
    /\ server.wss # NULL

\* A manual start was just answered "already running" after the automatic
\* start, with a connection registered.
C30_WitnessManualAfterAuto ==
    /\ out.op = "ws/start"
    /\ out.status = 200
    /\ out.message = "WebSocket server already running (auto-initialized)"
    /\ out.connectedClients = 1

====
